---- MODULE Spec2Model ----
(***************************************************************************)
(* Model of the quota-gated generation pipeline of src/index.ts: the quota *)
(* ledger (checkQuota / updateQuota), the redis content cache and          *)
(* popularity counters, the homework job store with its background runner  *)
(* (processHomeworkJob), the skill-update endpoint and the nightly warmer. *)
(* Every await of a handler is a scheduling point: a handler is a sequence *)
(* of atomic steps, one per database, redis or generation call, and steps  *)
(* of different handlers interleave freely.                                *)
(***************************************************************************)
EXTENDS Integers, Sequences, FiniteSets, TLC

VARIABLES
    quota_used,      \* users.quota_used, per user id
    quota_limit,     \* users.quota_limit, per user id
    skill_profile,   \* users.skill_profile, per user id: lessonId -> record or Absent
    homework_jobs,   \* table homework_jobs: row id = index
    runner,          \* one processHomeworkJob invocation per job row
    redis,           \* the redis key space: key -> [val, ttl, by]
    req,             \* HTTP requests in flight, in arrival order, with their position
    resp,            \* the last response sent, and to whom
    nreq,            \* number of HTTP requests received so far
    warmer,          \* the cron callback's position and locals
    owed,            \* per user: cost of the successes the user was answered with
    raced,           \* per user: a quota check passed while another was unreserved
    overlapped       \* per user: an operation started while another was in flight

vars == <<quota_used, quota_limit, skill_profile, homework_jobs, runner, redis,
          req, resp, nreq, warmer, owed, raced, overlapped>>

----------------------------------------------------------------------------
(* Bounds of the model *)

MaxReq == 2          \* HTTP requests in one behaviour
MaxJobs == 2         \* homework jobs in one behaviour
MaxSweeps == 2       \* warmer sweeps in one behaviour
HeadroomUnits == 3   \* initial quota headroom of a user, in units of 5

(* Program constants *)

QuotaLimit == 1000
CostDiagnostic == 5
CostLesson == 10
CostQuestions == 5
CostHomework == 15
RequestTtl == 3600
WarmerTtl == 86400
TopN == 10

Users == {"u1", "u2"}
Lessons == {"L1", "L2", "Lx"}      \* lesson ids a client may name
Curriculum == {"L1", "L2"}         \* lessons present in the curriculums table
Units == {"U1", "Ux"}              \* unit ids a client may name
CurriculumUnits == {"U1"}          \* units present in the curriculums table
confidenceLevels == <<"low", "medium", "high">>
Null == "null"                     \* SQL NULL / JS null of a text column
NoBody == [none |-> TRUE]          \* no response sent yet
Absent == [absent |-> TRUE]        \* skillProfile[lessonId] is undefined
NoData == [nodata |-> TRUE]        \* local not assigned yet
EmptyFn == [k \in {} |-> 0]

Cost(kind) ==
    CASE kind = "diagnostic" -> CostDiagnostic
      [] kind = "lesson" -> CostLesson
      [] kind = "questions" -> CostQuestions
      [] kind = "homework" -> CostHomework
      [] OTHER -> 0

----------------------------------------------------------------------------
(* Quota ledger *)

\* updateQuota: UPDATE users SET quota_used = quota_used + cost
\* the cost added only while the sum stays within the limit
UpdateQuotaWithinLimit(userId, cost) ==
    [quota_used EXCEPT ![userId] = IF @ + cost > quota_limit[userId] THEN @ ELSE @ + cost]

\* the cost taken off instead of added
UpdateQuotaSubtracting(userId, cost) ==
    [quota_used EXCEPT ![userId] = @ - cost]

updateQuota(userId, cost) ==
    [quota_used EXCEPT ![userId] = @ + cost]

\* checkQuota with a strict comparison
CheckQuotaStrict(userId, cost) ==
    (quota_used[userId] + cost) < quota_limit[userId]

\* checkQuota with the cost left out of the comparison
CheckQuotaNoCost(userId, cost) ==
    quota_used[userId] <= quota_limit[userId]

\* checkQuota: (quota_used + cost) <= quota_limit
checkQuota(userId, cost) ==
    (quota_used[userId] + cost) <= quota_limit[userId]

----------------------------------------------------------------------------
(* Requests *)

NewReq(kind, user, target) ==
    [id |-> nreq + 1, kind |-> kind, user |-> user, target |-> target, pc |-> "new",
     conf |-> Null, data |-> NoData, prof |-> EmptyFn, calls |-> 0,
     settled |-> FALSE]

\* what the client sees of a request: res.status(code).json(body)
Response(r, code, body) ==
    [user |-> r.user, kind |-> r.kind, target |-> r.target, code |-> code,
     body |-> body, calls |-> r.calls, settled |-> r.settled]

NoResponse ==
    [user |-> Null, kind |-> "none", target |-> Null, code |-> 0, body |-> NoBody,
     calls |-> 0, settled |-> FALSE]

Error(msg) == [error |-> msg]

RemoveAt(s, i) == SubSeq(s, 1, i - 1) \o SubSeq(s, i + 1, Len(s))

ReqIds == 1..Len(req)
JobIds == 1..Len(homework_jobs)

\* a request that arrives and suspends at its first await
Admit(r, pc) ==
    /\ req' = Append(req, [r EXCEPT !.pc = pc])
    /\ resp' = resp

\* a request that is answered before it ever suspends
Answer(r, code, body) ==
    /\ req' = req
    /\ resp' = Response(r, code, body)

\* request i goes on to its next await, with its locals updated to r
Suspend(i, r, pc) ==
    /\ req' = [req EXCEPT ![i] = [r EXCEPT !.pc = pc]]
    /\ resp' = resp

\* request i sends its response and its handler returns
Respond(i, r, code, body) ==
    /\ req' = RemoveAt(req, i)
    /\ resp' = Response(r, code, body)

\* "lost": the process exited while the invocation was suspended
RunnerLive(j) == runner[j].pc \notin {"done", "threw", "lost"}

LiveJobs(u) == {j \in JobIds : homework_jobs[j].user_id = u /\ RunnerLive(j)}

\* operations of user u that are still running: requests and job runners
InFlight(u) ==
    {<<"req", i>> : i \in {x \in ReqIds : req[x].user = u}}
    \cup {<<"job", j>> : j \in LiveJobs(u)}

\* operations of user u that passed their quota check and may still reserve
Pending(u) ==
    {<<"req", i>> : i \in {x \in ReqIds : req[x].user = u /\ Cost(req[x].kind) > 0}}
    \cup {<<"job", j>> : j \in LiveJobs(u)}

Arrived(u) == [overlapped EXCEPT ![u] = @ \/ InFlight(u) # {}]
Passed(u) == [raced EXCEPT ![u] = @ \/ Pending(u) # {}]

----------------------------------------------------------------------------
(* Outcomes of the external calls *)

\* a pool.query or a redis command resolves (TRUE) or rejects (FALSE)
Outcomes == BOOLEAN
DbError == "db error"

\* anthropic.messages.create for a homework image: a text block, a block of
\* another type, or a rejection with or without a message
\* a text block with the solution
Solved == [ok |-> TRUE, type |-> "text", text |-> "solution text", message |-> ""]

\* anthropic.messages.create rejects with an Error that has a message
ProviderError == [ok |-> FALSE, type |-> "", text |-> "", message |-> "provider error"]

HomeworkReplies ==
    {Solved,
     [ok |-> TRUE, type |-> "tool_use", text |-> "", message |-> ""],
     ProviderError,
     [ok |-> FALSE, type |-> "", text |-> "", message |-> ""]}

----------------------------------------------------------------------------
(* POST /api/homework/submit *)

NewJob(userId) ==
    [user_id |-> userId, status |-> "pending", solution |-> Null,
     failure_reason |-> Null]

\* writes: the terminal statuses this invocation wrote; gen: how its generation
\* call ended ("none" while it has not been made)
NewRunner ==
    [pc |-> "processing", err |-> "", solution |-> Null, writes |-> <<>>,
     gen |-> "none"]

\* the upload check, then checkQuota(userId, 15)
HomeworkSubmit(u, hasFile, ok) ==
    /\ nreq < MaxReq
    /\ Len(homework_jobs) + Cardinality({i \in ReqIds : req[i].kind = "homework"}) < MaxJobs
    /\ LET r == NewReq("homework", u, 0) IN
       IF ~hasFile
       THEN /\ Answer(r, 400, Error("No image file uploaded."))
            /\ raced' = raced
       ELSE IF ~ok
       THEN /\ Answer(r, 500, Error("Failed to submit homework problem."))
            /\ raced' = raced
       ELSE IF ~checkQuota(u, CostHomework)
       THEN /\ Answer(r, 402, Error("Insufficient quota. Please upgrade your plan."))
            /\ raced' = raced
       ELSE /\ Admit(r, "insert")
            /\ raced' = Passed(u)
    /\ nreq' = nreq + 1
    /\ overlapped' = Arrived(u)
    /\ UNCHANGED <<quota_used, quota_limit, skill_profile, homework_jobs, runner,
                   redis, warmer, owed>>

\* the handler awaits the runner's first UPDATE before it answers
HomeworkInsertAwaiting(i, ok) ==
    /\ i \in ReqIds
    /\ req[i].kind = "homework" /\ req[i].pc = "insert"
    /\ IF ok
       THEN /\ homework_jobs' = Append(homework_jobs,
                                       [NewJob(req[i].user) EXCEPT !.status = "processing"])
            /\ runner' = Append(runner, [NewRunner EXCEPT !.pc = "lookup"])
            /\ Respond(i, req[i], 202, [jobId |-> Len(homework_jobs) + 1])
       ELSE /\ Respond(i, req[i], 500, Error("Failed to submit homework problem."))
            /\ UNCHANGED <<homework_jobs, runner>>
    /\ UNCHANGED <<quota_used, quota_limit, skill_profile, redis, nreq, warmer,
                   owed, raced, overlapped>>

\* INSERT INTO homework_jobs, the 202 response, then processHomeworkJob is
\* called and runs up to its first await
HomeworkInsert(i, ok) ==
    /\ i \in ReqIds
    /\ req[i].kind = "homework" /\ req[i].pc = "insert"
    /\ IF ok
       THEN /\ homework_jobs' = Append(homework_jobs, NewJob(req[i].user))
            /\ runner' = Append(runner, NewRunner)
            /\ Respond(i, req[i], 202, [jobId |-> Len(homework_jobs) + 1])
       ELSE /\ Respond(i, req[i], 500, Error("Failed to submit homework problem."))
            /\ UNCHANGED <<homework_jobs, runner>>
    /\ UNCHANGED <<quota_used, quota_limit, skill_profile, redis, nreq, warmer,
                   owed, raced, overlapped>>

----------------------------------------------------------------------------
(* processHomeworkJob *)

\* an UPDATE without its WHERE id = $n: every row is written
SetJobAll(j, status, column, value) ==
    [k \in DOMAIN homework_jobs |->
        [homework_jobs[k] EXCEPT !.status = status, ![column] = value]]

\* UPDATE homework_jobs SET status = ..., column = ... WHERE id = j
SetJob(j, status, column, value) ==
    [homework_jobs EXCEPT ![j] = [@ EXCEPT !.status = status, ![column] = value]]

Threw(j, message) == [runner EXCEPT ![j].pc = "catch", ![j].err = message]

\* the invocation is over: its locals are gone
Returned(j, pc, written) ==
    [runner EXCEPT ![j] = [pc |-> pc, err |-> "", solution |-> Null,
                           writes |-> runner[j].writes \o written,
                           gen |-> runner[j].gen]]

\* UPDATE homework_jobs SET status = 'processing'
RunnerProcessing(j, ok) ==
    /\ j \in JobIds /\ runner[j].pc = "processing"
    /\ IF ok
       THEN /\ homework_jobs' = [homework_jobs EXCEPT ![j].status = "processing"]
            /\ runner' = [runner EXCEPT ![j].pc = "lookup"]
       ELSE /\ runner' = Threw(j, DbError)
            /\ UNCHANGED homework_jobs
    /\ UNCHANGED <<quota_used, quota_limit, skill_profile, redis, req, resp, nreq,
                   warmer, owed, raced, overlapped>>

\* SELECT preferences FROM users
RunnerLookup(j, ok) ==
    /\ j \in JobIds /\ runner[j].pc = "lookup"
    /\ runner' = IF ok THEN [runner EXCEPT ![j].pc = "generate"] ELSE Threw(j, DbError)
    /\ UNCHANGED <<quota_used, quota_limit, skill_profile, homework_jobs, redis,
                   req, resp, nreq, warmer, owed, raced, overlapped>>

\* aiResponse.content[0].type === 'text' ? text : the apology
SolutionOf(reply) ==
    IF reply.type = "text" THEN reply.text
    ELSE "Sorry, I couldn't find a text solution."

\* anthropic.messages.create with the image
RunnerGenerate(j, reply) ==
    /\ j \in JobIds /\ runner[j].pc = "generate"
    /\ runner' = IF reply.ok
                 THEN [runner EXCEPT ![j].pc = "complete", ![j].gen = "ok",
                                     ![j].solution = SolutionOf(reply)]
                 ELSE [Threw(j, reply.message) EXCEPT ![j].gen = "error"]
    /\ UNCHANGED <<quota_used, quota_limit, skill_profile, homework_jobs, redis,
                   req, resp, nreq, warmer, owed, raced, overlapped>>

\* UPDATE homework_jobs SET status = 'completed', solution = $1
RunnerComplete(j, ok) ==
    /\ j \in JobIds /\ runner[j].pc = "complete"
    /\ IF ok
       THEN /\ homework_jobs' = SetJob(j, "completed", "solution", runner[j].solution)
            /\ runner' = [runner EXCEPT ![j].pc = "reserve",
                                        ![j].writes = Append(@, "completed")]
            /\ owed' = [owed EXCEPT ![homework_jobs[j].user_id] = @ + CostHomework]
       ELSE /\ runner' = Threw(j, DbError)
            /\ UNCHANGED <<homework_jobs, owed>>
    /\ UNCHANGED <<quota_used, quota_limit, skill_profile, redis, req, resp, nreq,
                   warmer, raced, overlapped>>

\* await updateQuota(userId, 15), still inside the try block
RunnerReserve(j, ok) ==
    /\ j \in JobIds /\ runner[j].pc = "reserve"
    /\ IF ok
       THEN /\ quota_used' = updateQuota(homework_jobs[j].user_id, CostHomework)
            /\ runner' = Returned(j, "done", <<>>)
       ELSE /\ runner' = Threw(j, DbError)
            /\ UNCHANGED quota_used
    /\ UNCHANGED <<quota_limit, skill_profile, homework_jobs, redis, req, resp,
                   nreq, warmer, owed, raced, overlapped>>

\* error.message || "An unknown error occurred during AI processing."
FailureReason(message) ==
    IF message # "" THEN message
    ELSE "An unknown error occurred during AI processing."

\* a catch block that only logs the error
RunnerCatchSilent(j, ok) ==
    /\ j \in JobIds /\ runner[j].pc = "catch"
    /\ runner' = Returned(j, IF ok THEN "done" ELSE "threw", <<>>)
    /\ UNCHANGED <<quota_used, quota_limit, skill_profile, homework_jobs, redis,
                   req, resp, nreq, warmer, owed, raced, overlapped>>

\* a catch block that starts the invocation over
RunnerCatchRetrying(j, ok) ==
    /\ j \in JobIds /\ runner[j].pc = "catch"
    /\ runner' = [runner EXCEPT ![j].pc = IF ok THEN "lookup" ELSE "threw"]
    /\ UNCHANGED <<quota_used, quota_limit, skill_profile, homework_jobs, redis,
                   req, resp, nreq, warmer, owed, raced, overlapped>>

\* the catch block: UPDATE homework_jobs SET status = 'failed', failure_reason = $1;
\* when this query rejects too, the promise of the runner rejects
RunnerCatch(j, ok) ==
    /\ j \in JobIds /\ runner[j].pc = "catch"
    /\ IF ok
       THEN /\ homework_jobs' = SetJob(j, "failed", "failure_reason",
                                       FailureReason(runner[j].err))
            /\ runner' = Returned(j, "done", <<"failed">>)
       ELSE /\ runner' = Returned(j, "threw", <<>>)
            /\ UNCHANGED homework_jobs
    /\ UNCHANGED <<quota_used, quota_limit, skill_profile, redis, req, resp, nreq,
                   warmer, owed, raced, overlapped>>

----------------------------------------------------------------------------
(* GET /api/homework/status/:jobId *)

\* the rows WHERE id = $1, whoever the user is
StatusRowsAnyUser(jobId, userId) == {j \in JobIds : j = jobId}

\* SELECT status, solution, failure_reason WHERE id = $1 AND user_id = $2
StatusRows(jobId, userId) ==
    {j \in JobIds : j = jobId /\ homework_jobs[j].user_id = userId}

HomeworkStatus(u, jobId, ok) ==
    /\ nreq < MaxReq
    /\ LET rows == StatusRows(jobId, u)
           r == [NewReq("status", u, jobId) EXCEPT
                   !.settled = rows # {} /\ ~RunnerLive(jobId)] IN
       IF ~ok THEN Answer(r, 500, Error("Failed to fetch job status."))
       ELSE IF rows = {} THEN Answer(r, 404, Error("Job not found."))
       ELSE Answer(r, 200, [status |-> homework_jobs[jobId].status,
                            solution |-> homework_jobs[jobId].solution,
                            failureReason |-> homework_jobs[jobId].failure_reason])
    /\ nreq' = nreq + 1
    /\ overlapped' = Arrived(u)
    /\ UNCHANGED <<quota_used, quota_limit, skill_profile, homework_jobs, runner,
                   redis, warmer, owed, raced>>

----------------------------------------------------------------------------
(* The redis key space *)

CountKey(lessonId) == <<"lesson_count", lessonId>>

\* `lesson:${lessonId}:group:${confidence}`
cacheKey(lessonId, confidence) == <<"lesson", lessonId, "group", confidence>>

Cached(key) == key \in DOMAIN redis

\* SET key value: the entry is stored without a time-to-live
SetExPersistent(key, ttl, value, by) ==
    [k \in DOMAIN redis \cup {key} |->
        IF k = key THEN [val |-> value, ttl |-> 0, by |-> by] ELSE redis[k]]

\* SETEX key ttl value; by names the writer and so the instant of the write
SetEx(key, ttl, value, by) ==
    [k \in DOMAIN redis \cup {key} |->
        IF k = key THEN [val |-> value, ttl |-> ttl, by |-> by] ELSE redis[k]]

\* every entry of the key's lesson is deleted, whatever its tier
DelLesson(key) ==
    [k \in {x \in DOMAIN redis : x # key /\ ~(x[1] = "lesson" /\ x[2] = key[2])} |->
        redis[k]]

\* DEL key
Del(key) == [k \in DOMAIN redis \ {key} |-> redis[k]]

\* INCR key: a missing key counts as 0 and gets no expiry
Incr(key) ==
    [k \in DOMAIN redis \cup {key} |->
        IF k = key
        THEN [val |-> IF Cached(key) THEN redis[key].val + 1 ELSE 1, ttl |-> 0,
              by |-> [writer |-> "incr"]]
        ELSE redis[k]]

\* JSON.stringify / JSON.parse of { content, keywords }
Stringify(data) == [json |-> data]
Parse(string) == string.json

----------------------------------------------------------------------------
(* Generated text: a string is a sequence of tokens *)

Marker == "KEYWORDS:"

\* String.prototype.lastIndexOf, 1-based, 0 when absent
LastIndexOf(text, token) ==
    LET at == {i \in 1..Len(text) : text[i] = token} IN
    IF at = {} THEN 0 ELSE CHOOSE i \in at : \A k \in at : k <= i

\* String.prototype.indexOf, 1-based, 0 when absent
IndexOf(text, token) ==
    LET at == {i \in 1..Len(text) : text[i] = token} IN
    IF at = {} THEN 0 ELSE CHOOSE i \in at : \A k \in at : i <= k

\* String.prototype.trim
Trim(text) ==
    LET ink == {i \in 1..Len(text) : text[i] # " "} IN
    IF ink = {} THEN <<>>
    ELSE SubSeq(text, CHOOSE i \in ink : \A k \in ink : i <= k,
                      CHOOSE i \in ink : \A k \in ink : k <= i)

\* String.prototype.split(',')
RECURSIVE Split(_)
Split(text) ==
    LET c == IndexOf(text, ",") IN
    IF c = 0 THEN <<text>>
    ELSE <<SubSeq(text, 1, c - 1)>> \o Split(SubSeq(text, c + 1, Len(text)))

\* .map(k => k.trim()).filter(k => k)
RECURSIVE TrimAll(_)
TrimAll(parts) ==
    IF parts = <<>> THEN <<>>
    ELSE LET k == Trim(Head(parts)) IN
         (IF k = <<>> THEN <<>> ELSE <<k>>) \o TrimAll(Tail(parts))

\* the split of the reply at its last KEYWORDS: marker into content and keywords
ParseLesson(responseText) ==
    LET keywordIndex == LastIndexOf(responseText, Marker) IN
    IF keywordIndex = 0
    THEN [content |-> responseText, keywords |-> <<>>]
    ELSE [content |-> Trim(SubSeq(responseText, 1, keywordIndex - 1)),
          keywords |-> TrimAll(Split(Trim(SubSeq(responseText, keywordIndex + 1,
                                                 Len(responseText)))))]

\* anthropic.messages.create rejects
Rejected == [ok |-> FALSE, type |-> "", text |-> <<>>]

\* a text block with the explanation and the keyword line
Explained ==
    [ok |-> TRUE, type |-> "text",
     text |-> <<"lesson A", " ", Marker, " ", "k1", ",", " ", "k2">>]

\* anthropic.messages.create for a lesson
LessonReplies ==
    {Explained,
     [ok |-> TRUE, type |-> "text", text |-> <<"lesson B", " ">>],
     [ok |-> TRUE, type |-> "tool_use", text |-> <<>>],
     Rejected}

\* aiResponse.content[0].type === 'text' ? aiResponse.content[0].text : ''
ResponseText(reply) == IF reply.type = "text" THEN reply.text ELSE <<>>

\* JSON.parse accepts the substring: an object without stray braces
WellFormed(text) ==
    /\ Len(text) >= 2
    /\ text[1] = "{" /\ text[Len(text)] = "}"
    /\ \A i \in 2..(Len(text) - 1) : text[i] \notin {"{", "}"}

\* the substring from the first { to the last } is taken and parsed
ParsesAsJson(responseText) ==
    LET jsonStartIndex == IndexOf(responseText, "{")
        jsonEndIndex == LastIndexOf(responseText, "}") + 1 IN
    /\ jsonStartIndex # 0 /\ jsonEndIndex > jsonStartIndex
    /\ WellFormed(SubSeq(responseText, jsonStartIndex, jsonEndIndex - 1))

JsonOf(responseText) ==
    SubSeq(responseText, IndexOf(responseText, "{"), LastIndexOf(responseText, "}"))

\* geminiModel.generateContent for a test or a question list
\* a reply whose text holds one JSON object, and a rejected call
JsonOk == [ok |-> TRUE, text |-> <<"Here:", "{", "questions", "}">>]
JsonFailed == [ok |-> FALSE, text |-> <<>>]

JsonReplies ==
    {[ok |-> TRUE, text |-> <<"Here:", "{", "questions", "}">>],
     [ok |-> TRUE, text |-> <<"{", "questions", "}", "}">>],
     [ok |-> TRUE, text |-> <<"I cannot">>],
     [ok |-> FALSE, text |-> <<>>]}

----------------------------------------------------------------------------
(* quotaCheck(cost), the middleware in front of a costed handler *)

\* quotaCheck without the return in front of res.status(402): next() is called too
QuotaCheckFallsThrough(kind, u, target, ok, first) ==
    /\ nreq < MaxReq
    /\ LET r == NewReq(kind, u, target) IN
       IF ~ok
       THEN /\ Answer(r, 500, Error("Failed to check quota."))
            /\ raced' = raced
       ELSE /\ req' = Append(req, [r EXCEPT !.pc = first])
            /\ resp' = IF checkQuota(u, Cost(kind)) THEN resp
                       ELSE Response(r, 402, Error("Insufficient quota. Please upgrade your plan."))
            /\ raced' = Passed(u)
    /\ nreq' = nreq + 1
    /\ overlapped' = Arrived(u)
    /\ UNCHANGED <<quota_used, quota_limit, skill_profile, homework_jobs, runner,
                   redis, warmer, owed>>

QuotaCheck(kind, u, target, ok, first) ==
    /\ nreq < MaxReq
    /\ LET r == NewReq(kind, u, target) IN
       IF ~ok
       THEN /\ Answer(r, 500, Error("Failed to check quota."))
            /\ raced' = raced
       ELSE IF ~checkQuota(u, Cost(kind))
       THEN /\ Answer(r, 402, Error("Insufficient quota. Please upgrade your plan."))
            /\ raced' = raced
       ELSE /\ Admit(r, first)
            /\ raced' = Passed(u)
    /\ nreq' = nreq + 1
    /\ overlapped' = Arrived(u)
    /\ UNCHANGED <<quota_used, quota_limit, skill_profile, homework_jobs, runner,
                   redis, warmer, owed>>

\* the cost is added whether the statement succeeds or not
ReserveAnyway(i, ok, failure) ==
    LET r == req[i] IN
    /\ quota_used' = updateQuota(r.user, Cost(r.kind))
    /\ owed' = [owed EXCEPT ![r.user] = @ + Cost(r.kind)]
    /\ IF ok THEN Respond(i, r, 200, r.data) ELSE Respond(i, r, 500, Error(failure))
    /\ UNCHANGED <<quota_limit, skill_profile, homework_jobs, runner, redis, nreq,
                   warmer, raced, overlapped>>

\* a handler's await updateQuota(userId, cost) and the 200 that follows it
Reserve(i, ok, failure) ==
    LET r == req[i] IN
    /\ IF ok
       THEN /\ quota_used' = updateQuota(r.user, Cost(r.kind))
            /\ owed' = [owed EXCEPT ![r.user] = @ + Cost(r.kind)]
            /\ Respond(i, r, 200, r.data)
       ELSE /\ Respond(i, r, 500, Error(failure))
            /\ UNCHANGED <<quota_used, owed>>
    /\ UNCHANGED <<quota_limit, skill_profile, homework_jobs, runner, redis, nreq,
                   warmer, raced, overlapped>>

\* a step of request i that touches nothing but the request itself
Local(i) ==
    UNCHANGED <<quota_used, quota_limit, skill_profile, homework_jobs, runner,
                redis, nreq, warmer, owed, raced, overlapped>>

At(i, kind, pc) == i \in ReqIds /\ req[i].kind = kind /\ req[i].pc = pc

----------------------------------------------------------------------------
(* POST /api/units/:unitId/diagnostic-test *)

DiagnosticFailed == "Failed to generate diagnostic test."

DiagnosticArrive(u, unitId, ok) == QuotaCheck("diagnostic", u, unitId, ok, "curriculum")

\* SELECT data FROM curriculums; findUnitById
DiagnosticCurriculum(i, ok) ==
    /\ At(i, "diagnostic", "curriculum")
    /\ IF ~ok THEN Respond(i, req[i], 500, Error(DiagnosticFailed))
       ELSE IF req[i].target \notin CurriculumUnits
       THEN Respond(i, req[i], 404, Error("Unit not found."))
       ELSE Suspend(i, req[i], "generate")
    /\ Local(i)

\* geminiModel.generateContent, then the search for a JSON object in the text
DiagnosticGenerate(i, reply) ==
    /\ At(i, "diagnostic", "generate")
    /\ LET r == [req[i] EXCEPT !.calls = @ + 1] IN
       IF reply.ok /\ ParsesAsJson(reply.text)
       THEN Suspend(i, [r EXCEPT !.data = [json |-> JsonOf(reply.text)]], "reserve")
       ELSE Respond(i, r, 500, Error(DiagnosticFailed))
    /\ Local(i)

DiagnosticReserve(i, ok) ==
    /\ At(i, "diagnostic", "reserve")
    /\ Reserve(i, ok, DiagnosticFailed)

----------------------------------------------------------------------------
(* POST /api/lessons/:lessonId/questions *)

QuestionsFailed == "Failed to generate questions."

QuestionsArrive(u, lessonId, ok) == QuotaCheck("questions", u, lessonId, ok, "curriculum")

\* SELECT data FROM curriculums; findLessonById
QuestionsCurriculum(i, ok) ==
    /\ At(i, "questions", "curriculum")
    /\ IF ~ok THEN Respond(i, req[i], 500, Error(QuestionsFailed))
       ELSE IF req[i].target \notin Curriculum
       THEN Respond(i, req[i], 404, Error("Lesson details not found."))
       ELSE Suspend(i, req[i], "generate")
    /\ Local(i)

QuestionsGenerate(i, reply) ==
    /\ At(i, "questions", "generate")
    /\ LET r == [req[i] EXCEPT !.calls = @ + 1] IN
       IF reply.ok /\ ParsesAsJson(reply.text)
       THEN Suspend(i, [r EXCEPT !.data = [json |-> JsonOf(reply.text)]], "reserve")
       ELSE Respond(i, r, 500, Error(QuestionsFailed))
    /\ Local(i)

QuestionsReserve(i, ok) ==
    /\ At(i, "questions", "reserve")
    /\ Reserve(i, ok, QuestionsFailed)

----------------------------------------------------------------------------
(* POST /api/lessons/:lessonId/generate *)

LessonFailed == "Failed to generate lesson content."

LessonArrive(u, lessonId, ok) == QuotaCheck("lesson", u, lessonId, ok, "incr")

\* the handler goes on without counting the request
LessonIncrNothing(i, ok) ==
    /\ At(i, "lesson", "incr")
    /\ redis' = redis
    /\ IF ok THEN Suspend(i, req[i], "select")
       ELSE Respond(i, req[i], 500, Error(LessonFailed))
    /\ UNCHANGED <<quota_used, quota_limit, skill_profile, homework_jobs, runner,
                   nreq, warmer, owed, raced, overlapped>>

\* await redisClient.incr(`lesson_count:${lessonId}`)
LessonIncr(i, ok) ==
    /\ At(i, "lesson", "incr")
    /\ IF ok
       THEN /\ redis' = Incr(CountKey(req[i].target))
            /\ Suspend(i, req[i], "select")
       ELSE /\ redis' = redis
            /\ Respond(i, req[i], 500, Error(LessonFailed))
    /\ UNCHANGED <<quota_used, quota_limit, skill_profile, homework_jobs, runner,
                   nreq, warmer, owed, raced, overlapped>>

\* the skill record is not looked at: every request is served at low
ConfidenceOfLow(profile, lessonId) == "low"

\* skillProfile[lessonId]?.confidence || 'low'
ConfidenceOf(profile, lessonId) ==
    IF profile[lessonId] = Absent THEN "low" ELSE profile[lessonId].confidence

\* the two SELECTs, findLessonById, and the confidence read off the profile
LessonSelect(i, ok) ==
    /\ At(i, "lesson", "select")
    /\ IF ~ok THEN Respond(i, req[i], 500, Error(LessonFailed))
       ELSE IF req[i].target \notin Curriculum
       THEN Respond(i, req[i], 404, Error("Lesson details not found in curriculum."))
       ELSE Suspend(i, [req[i] EXCEPT
                          !.conf = ConfidenceOf(skill_profile[req[i].user], req[i].target)],
                    "get")
    /\ Local(i)

\* a key of the lesson and the user, whatever the confidence
LessonKeyPerUser(r) == <<"lesson", r.target, r.user>>

\* the cache key of a lesson request, from the request's locals
LessonKey(r) == cacheKey(r.target, r.conf)

\* await redisClient.get(cacheKey); a hit is answered from the cache
LessonGet(i, ok) ==
    /\ At(i, "lesson", "get")
    /\ IF ~ok THEN Respond(i, req[i], 500, Error(LessonFailed))
       ELSE IF Cached(LessonKey(req[i]))
       THEN Respond(i, req[i], 200, Parse(redis[LessonKey(req[i])].val))
       ELSE Suspend(i, req[i], "generate")
    /\ owed' = IF ok /\ Cached(LessonKey(req[i]))
               THEN [owed EXCEPT ![req[i].user] = @ + CostLesson] ELSE owed
    /\ UNCHANGED <<quota_used, quota_limit, skill_profile, homework_jobs, runner,
                   redis, nreq, warmer, raced, overlapped>>

\* anthropic.messages.create and the split of its text
LessonGenerate(i, reply) ==
    /\ At(i, "lesson", "generate")
    /\ LET r == [req[i] EXCEPT !.calls = @ + 1] IN
       IF reply.ok
       THEN Suspend(i, [r EXCEPT !.data = ParseLesson(ResponseText(reply))], "setEx")
       ELSE Respond(i, r, 500, Error(LessonFailed))
    /\ Local(i)

\* await redisClient.setEx(cacheKey, 3600, JSON.stringify(responseData))
LessonSetEx(i, ok) ==
    /\ At(i, "lesson", "setEx")
    /\ IF ok
       THEN /\ redis' = SetEx(LessonKey(req[i]), RequestTtl, Stringify(req[i].data),
                              [writer |-> "request", user |-> req[i].user, n |-> req[i].id,
                               lessonId |-> req[i].target, confidence |-> req[i].conf])
            /\ Suspend(i, req[i], "reserve")
       ELSE /\ redis' = redis
            /\ Respond(i, req[i], 500, Error(LessonFailed))
    /\ UNCHANGED <<quota_used, quota_limit, skill_profile, homework_jobs, runner,
                   nreq, warmer, owed, raced, overlapped>>

LessonReserve(i, ok) ==
    /\ At(i, "lesson", "reserve")
    /\ Reserve(i, ok, LessonFailed)

----------------------------------------------------------------------------
(* POST /api/lessons/:lessonId/update-skill *)

SkillFailed == "Failed to update skill profile."

RECURSIVE Gcd(_, _)
Gcd(a, b) == IF b = 0 THEN a ELSE Gcd(b, a % b)

Abs(x) == IF x < 0 THEN -x ELSE x

\* the number score / totalQuestions, kept as a fraction in lowest terms
Quotient(score, totalQuestions) ==
    LET g == Gcd(Abs(score), totalQuestions) IN
    [num |-> score \div g, den |-> totalQuestions \div g]

\* totalQuestions > 0 ? score / totalQuestions : 0
NewMastery(score, totalQuestions) ==
    IF totalQuestions > 0 THEN Quotient(score, totalQuestions)
    ELSE [num |-> 0, den |-> 1]

\* mastery > tenths / 10, for the literals 0.7 and 0.4
Above(mastery, tenths) == mastery.num * 10 > tenths * mastery.den

\* newMastery > 0.7 ? 'high' : newMastery > 0.4 ? 'medium' : 'low'
ConfidenceFor(mastery) ==
    IF Above(mastery, 7) THEN "high"
    ELSE IF Above(mastery, 4) THEN "medium"
    ELSE "low"

\* the record assigned to skillProfile[lessonId] (lastAttempt left out)
SkillRecord(score, totalQuestions) ==
    [masteryScore |-> NewMastery(score, totalQuestions),
     confidence |-> ConfidenceFor(NewMastery(score, totalQuestions))]

\* the body check comes after the write: a request without score or
\* totalQuestions is stored as 0 of 0 and then answered 400
SkillArriveCheckingLate(u, lessonId, given, score, totalQuestions, ok) ==
    /\ nreq < MaxReq
    /\ LET r == NewReq("skill", u, lessonId) IN
       IF ~given
       THEN /\ Answer(r, 400, Error("Score and totalQuestions are required."))
            /\ skill_profile' = [skill_profile EXCEPT ![u][lessonId] = SkillRecord(0, 0)]
       ELSE /\ skill_profile' = skill_profile
            /\ IF ~ok THEN Answer(r, 500, Error(SkillFailed))
               ELSE Admit([r EXCEPT !.prof = [skill_profile[u] EXCEPT
                                                ![lessonId] = SkillRecord(score, totalQuestions)]],
                          "update")
    /\ nreq' = nreq + 1
    /\ overlapped' = Arrived(u)
    /\ UNCHANGED <<quota_used, quota_limit, homework_jobs, runner, redis, warmer,
                   owed, raced>>

\* the body check, then SELECT skill_profile and the new record put into the copy
SkillArrive(u, lessonId, given, score, totalQuestions, ok) ==
    /\ nreq < MaxReq
    /\ LET r == NewReq("skill", u, lessonId) IN
       IF ~given THEN Answer(r, 400, Error("Score and totalQuestions are required."))
       ELSE IF ~ok THEN Answer(r, 500, Error(SkillFailed))
       ELSE Admit([r EXCEPT !.prof = [skill_profile[u] EXCEPT
                                        ![lessonId] = SkillRecord(score, totalQuestions)]],
                  "update")
    /\ nreq' = nreq + 1
    /\ overlapped' = Arrived(u)
    /\ UNCHANGED <<quota_used, quota_limit, skill_profile, homework_jobs, runner,
                   redis, warmer, owed, raced>>

\* an UPDATE without its WHERE id = $2: every user's profile is written
SkillUpdateEveryUser(i, ok) ==
    /\ At(i, "skill", "update")
    /\ IF ok
       THEN /\ skill_profile' = [u \in Users |-> req[i].prof]
            /\ Suspend(i, req[i], "del")
       ELSE /\ skill_profile' = skill_profile
            /\ Respond(i, req[i], 500, Error(SkillFailed))
    /\ UNCHANGED <<quota_used, quota_limit, homework_jobs, runner, redis, nreq,
                   warmer, owed, raced, overlapped>>

\* UPDATE users SET skill_profile = $1: the whole profile is written back
SkillUpdate(i, ok) ==
    /\ At(i, "skill", "update")
    /\ IF ok
       THEN /\ skill_profile' = [skill_profile EXCEPT ![req[i].user] = req[i].prof]
            /\ Suspend(i, req[i], "del")
       ELSE /\ skill_profile' = skill_profile
            /\ Respond(i, req[i], 500, Error(SkillFailed))
    /\ UNCHANGED <<quota_used, quota_limit, homework_jobs, runner, redis, nreq,
                   warmer, owed, raced, overlapped>>

\* the key of the lesson and the user, whatever the confidence
SkillKeyPerUser(r) == <<"lesson", r.target, r.user>>

\* the key a skill update invalidates: that of the new confidence
SkillKey(r) == cacheKey(r.target, r.prof[r.target].confidence)

\* await redisClient.del(`lesson:${lessonId}:group:${confidence}`), then 200
SkillDel(i, ok) ==
    /\ At(i, "skill", "del")
    /\ IF ok
       THEN /\ redis' = Del(SkillKey(req[i]))
            /\ Respond(i, req[i], 200, [message |-> "Skill profile updated successfully."])
       ELSE /\ redis' = redis
            /\ Respond(i, req[i], 500, Error(SkillFailed))
    /\ UNCHANGED <<quota_used, quota_limit, skill_profile, homework_jobs, runner,
                   nreq, warmer, owed, raced, overlapped>>

----------------------------------------------------------------------------
(* Expiry: redis drops a key whose time-to-live has elapsed *)

\* every key has a time-to-live, the counters too
ExpireAny(key) ==
    /\ Cached(key)
    /\ redis' = Del(key)
    /\ warmer' = [warmer EXCEPT !.before = [k \in DOMAIN @ \ {key} |-> @[k]]]
    /\ UNCHANGED <<quota_used, quota_limit, skill_profile, homework_jobs, runner,
                   req, resp, nreq, owed, raced, overlapped>>

Expire(key) ==
    /\ Cached(key) /\ redis[key].ttl > 0
    /\ redis' = Del(key)
    /\ warmer' = [warmer EXCEPT !.before = [k \in DOMAIN @ \ {key} |-> @[k]]]
    /\ UNCHANGED <<quota_used, quota_limit, skill_profile, homework_jobs, runner,
                   req, resp, nreq, owed, raced, overlapped>>

----------------------------------------------------------------------------
(* The nightly cron callback *)

RECURSIVE InsertAscending(_, _)
\* x put into a list sorted by count ascending, behind its equals
InsertAscending(sorted, x) ==
    IF sorted = <<>> THEN <<x>>
    ELSE IF x.count < Head(sorted).count THEN <<x>> \o sorted
    ELSE <<Head(sorted)>> \o InsertAscending(Tail(sorted), x)

RECURSIVE InsertBeforeEquals(_, _)
\* x put into a list sorted by count descending, in front of its equals
InsertBeforeEquals(sorted, x) ==
    IF sorted = <<>> THEN <<x>>
    ELSE IF x.count >= Head(sorted).count THEN <<x>> \o sorted
    ELSE <<Head(sorted)>> \o InsertBeforeEquals(Tail(sorted), x)

RECURSIVE Insert(_, _)
\* x put into a list sorted by count descending, behind its equals
Insert(sorted, x) ==
    IF sorted = <<>> THEN <<x>>
    ELSE IF x.count > Head(sorted).count THEN <<x>> \o sorted
    ELSE <<Head(sorted)>> \o Insert(Tail(sorted), x)

RECURSIVE SortByCount(_)
\* lessonCounts.sort((a, b) => b.count - a.count): stable, descending
SortByCount(lessonCounts) ==
    IF lessonCounts = <<>> THEN <<>>
    ELSE Insert(SortByCount(SubSeq(lessonCounts, 1, Len(lessonCounts) - 1)),
                lessonCounts[Len(lessonCounts)])

\* .slice(0, n)
Slice(list, n) == SubSeq(list, 1, IF Len(list) < n THEN Len(list) ELSE n)

\* parseInt(await redisClient.get(key) || '0', 10) and key.split(':')[1]
LessonCount(key) ==
    [lessonId |-> key[2], count |-> IF Cached(key) THEN redis[key].val ELSE 0]

\* lessonCounts.sort(...).slice(0, n)
Select(lessonCounts, n) == Slice(SortByCount(lessonCounts), n)

\* the { lessonId, count } objects of Promise.all, in the order of the keys
LessonCounts(countKeys) == [n \in 1..Len(countKeys) |-> LessonCount(countKeys[n])]

popularLessons(countKeys) == Select(LessonCounts(countKeys), TopN)

\* the lists in which redisClient.keys('lesson_count:*') may return the keys
KeyOrders ==
    LET ks == {k \in DOMAIN redis : k[1] = "lesson_count"} IN
    {o \in [1..Cardinality(ks) -> ks] : \A a, b \in 1..Cardinality(ks) : a # b => o[a] # o[b]}

\* the callback returns ("done", or "empty" when there is no counter) or its catch
\* block logs the error of the await that rejected (how names that await)
Ended(how) ==
    [warmer EXCEPT !.pc = "idle", !.sweeps = @ + 1, !.last = how, !.data = NoData]

RECURSIVE Seek(_, _, _)
\* the next (lesson, confidence) of the two loops from position (i, t) on; lessons
\* that findLessonById does not find are passed over
Seek(w, i, t) ==
    IF i > Len(w.popular) THEN [w EXCEPT !.i = i, !.t = 1, !.pc = "end"]
    ELSE IF w.popular[i].lessonId \notin Curriculum \/ t > Len(confidenceLevels)
    THEN Seek(w, i + 1, 1)
    ELSE [w EXCEPT !.i = i, !.t = t, !.pc = "get"]

\* the loops move on to the next combination, or the callback returns
Continue(i, t) ==
    LET w == Seek(warmer, i, t) IN
    IF w.pc = "end" THEN [Ended("done") EXCEPT !.i = w.i, !.t = w.t]
    ELSE w

WarmerKey == cacheKey(warmer.popular[warmer.i].lessonId, confidenceLevels[warmer.t])

WarmerFrame ==
    UNCHANGED <<quota_used, quota_limit, skill_profile, homework_jobs, runner,
                req, resp, nreq, owed, raced, overlapped>>

\* the trigger fires: await redisClient.keys('lesson_count:*')
WarmerStart(countKeys, ok) ==
    /\ warmer.pc = "idle" /\ warmer.sweeps < MaxSweeps
    /\ countKeys \in KeyOrders
    /\ LET w == [warmer EXCEPT !.checked = {}, !.calls = <<>>, !.before = redis,
                               !.keys = <<>>, !.popular = <<>>, !.i = 1, !.t = 1] IN
       warmer' = IF ~ok THEN [w EXCEPT !.sweeps = @ + 1, !.last = "keys"]
                 ELSE IF countKeys = <<>> THEN [w EXCEPT !.sweeps = @ + 1, !.last = "empty"]
                 ELSE [w EXCEPT !.pc = "counts", !.keys = countKeys]
    /\ redis' = redis
    /\ WarmerFrame

\* the counters are read and reset: each key is deleted once it has been read
WarmerCountsResetting(ok) ==
    /\ warmer.pc = "counts"
    /\ warmer' = IF ok THEN [warmer EXCEPT !.pc = "curriculum", !.keys = <<>>,
                                           !.popular = popularLessons(warmer.keys)]
                 ELSE Ended("counts")
    /\ redis' = IF ok THEN [k \in {x \in DOMAIN redis : x[1] # "lesson_count"} |-> redis[k]]
                 ELSE redis
    /\ WarmerFrame

\* the GETs of all counters, the sort and the slice
WarmerCounts(ok) ==
    /\ warmer.pc = "counts"
    /\ warmer' = IF ok THEN [warmer EXCEPT !.pc = "curriculum", !.keys = <<>>,
                                           !.popular = popularLessons(warmer.keys)]
                 ELSE Ended("counts")
    /\ redis' = redis
    /\ WarmerFrame

\* SELECT data FROM curriculums, then the loops start
WarmerCurriculum(ok) ==
    /\ warmer.pc = "curriculum"
    /\ warmer' = IF ok THEN Continue(1, 1) ELSE Ended("curriculum")
    /\ redis' = redis
    /\ WarmerFrame

\* a lookup whose result is not used: every combination is generated
WarmerGetNoSkip(ok) ==
    /\ warmer.pc = "get"
    /\ warmer' = IF ~ok THEN Ended("get")
                 ELSE [warmer EXCEPT !.checked = @ \cup {WarmerKey}, !.pc = "generate"]
    /\ redis' = redis
    /\ WarmerFrame

\* await redisClient.get(cacheKey); if (cached) continue
WarmerGet(ok) ==
    /\ warmer.pc = "get"
    /\ warmer' = IF ~ok THEN Ended("get")
                 ELSE LET w == [warmer EXCEPT !.checked = @ \cup {WarmerKey}] IN
                      IF Cached(WarmerKey)
                      THEN [Continue(warmer.i, warmer.t + 1) EXCEPT !.checked = w.checked]
                      ELSE [w EXCEPT !.pc = "generate"]
    /\ redis' = redis
    /\ WarmerFrame

\* anthropic.messages.create and the split of its text
WarmerGenerate(reply) ==
    /\ warmer.pc = "generate"
    /\ warmer' = IF reply.ok
                 THEN [warmer EXCEPT !.pc = "setEx", !.calls = Append(@, WarmerKey),
                                     !.data = ParseLesson(ResponseText(reply))]
                 ELSE [Ended("generate") EXCEPT !.calls = Append(@, WarmerKey)]
    /\ redis' = redis
    /\ WarmerFrame

\* await redisClient.setEx(cacheKey, 86400, JSON.stringify(responseData))
WarmerSetEx(ok) ==
    /\ warmer.pc = "setEx"
    /\ IF ok
       THEN /\ redis' = SetEx(WarmerKey, WarmerTtl, Stringify(warmer.data),
                              [writer |-> "warmer", n |-> warmer.sweeps + 1])
            /\ warmer' = [Continue(warmer.i, warmer.t + 1) EXCEPT !.data = NoData]
       ELSE /\ redis' = redis
            /\ warmer' = Ended("setEx")
    /\ WarmerFrame

----------------------------------------------------------------------------
(* Initial state: two registered users, u1 close to its limit *)

InitialUsed(u) == IF u = "u1" THEN QuotaLimit - 5 * HeadroomUnits ELSE 0

IdleWarmer ==
    [pc |-> "idle", sweeps |-> 0, keys |-> <<>>, popular |-> <<>>, i |-> 1, t |-> 1,
     data |-> NoData, checked |-> {}, calls |-> <<>>, before |-> EmptyFn,
     last |-> "none"]

Init ==
    /\ quota_used = [u \in Users |-> InitialUsed(u)]
    /\ quota_limit = [u \in Users |-> QuotaLimit]
    /\ skill_profile = [u \in Users |-> [l \in Lessons |-> Absent]]
    /\ homework_jobs = <<>>
    /\ runner = <<>>
    /\ redis = EmptyFn
    /\ req = <<>>
    /\ resp = NoResponse
    /\ nreq = 0
    /\ warmer = IdleWarmer
    /\ owed = [u \in Users |-> 0]
    /\ raced = [u \in Users |-> FALSE]
    /\ overlapped = [u \in Users |-> FALSE]

----------------------------------------------------------------------------
(* The homework pipeline: submissions, their runners and status polls *)

NextJobs ==
    \/ \E u \in Users, hasFile \in BOOLEAN, ok \in Outcomes : HomeworkSubmit(u, hasFile, ok)
    \/ \E i \in ReqIds, ok \in Outcomes : HomeworkInsert(i, ok)
    \/ \E j \in JobIds, ok \in Outcomes : RunnerProcessing(j, ok)
    \/ \E j \in JobIds, ok \in Outcomes : RunnerLookup(j, ok)
    \/ \E j \in JobIds, reply \in HomeworkReplies : RunnerGenerate(j, reply)
    \/ \E j \in JobIds, ok \in Outcomes : RunnerComplete(j, ok)
    \/ \E j \in JobIds, ok \in Outcomes : RunnerReserve(j, ok)
    \/ \E j \in JobIds, ok \in Outcomes : RunnerCatch(j, ok)
    \/ \E u \in Users, jobId \in 1..MaxJobs, ok \in Outcomes : HomeworkStatus(u, jobId, ok)

SpecJobs == Init /\ [][NextJobs]_vars

----------------------------------------------------------------------------
(* The quota ledger under all four costed operations *)

\* the ledger rows are independent: one user spends, the other stands by
Spenders == {"u1"}

NextQuota ==
    \/ \E u \in Spenders, unitId \in Units, ok \in Outcomes : DiagnosticArrive(u, unitId, ok)
    \/ \E i \in ReqIds, ok \in Outcomes : DiagnosticCurriculum(i, ok)
    \/ \E i \in ReqIds, reply \in JsonReplies : DiagnosticGenerate(i, reply)
    \/ \E i \in ReqIds, ok \in Outcomes : DiagnosticReserve(i, ok)
    \/ \E u \in Spenders, lessonId \in {"L1", "Lx"}, ok \in Outcomes :
          QuestionsArrive(u, lessonId, ok)
    \/ \E i \in ReqIds, ok \in Outcomes : QuestionsCurriculum(i, ok)
    \/ \E i \in ReqIds, reply \in JsonReplies : QuestionsGenerate(i, reply)
    \/ \E i \in ReqIds, ok \in Outcomes : QuestionsReserve(i, ok)
    \/ \E u \in Spenders, lessonId \in {"L1", "Lx"}, ok \in Outcomes :
          LessonArrive(u, lessonId, ok)
    \/ \E i \in ReqIds, ok \in Outcomes : LessonIncr(i, ok)
    \/ \E i \in ReqIds, ok \in Outcomes : LessonSelect(i, ok)
    \/ \E i \in ReqIds, ok \in Outcomes : LessonGet(i, ok)
    \/ \E i \in ReqIds, reply \in LessonReplies : LessonGenerate(i, reply)
    \/ \E i \in ReqIds, ok \in Outcomes : LessonSetEx(i, ok)
    \/ \E i \in ReqIds, ok \in Outcomes : LessonReserve(i, ok)
    \/ \E u \in Spenders, hasFile \in BOOLEAN, ok \in Outcomes : HomeworkSubmit(u, hasFile, ok)
    \/ \E i \in ReqIds, ok \in Outcomes : HomeworkInsert(i, ok)
    \/ \E j \in JobIds, ok \in Outcomes : RunnerProcessing(j, ok)
    \/ \E j \in JobIds, ok \in Outcomes : RunnerLookup(j, ok)
    \/ \E j \in JobIds, reply \in HomeworkReplies : RunnerGenerate(j, reply)
    \/ \E j \in JobIds, ok \in Outcomes : RunnerComplete(j, ok)
    \/ \E j \in JobIds, ok \in Outcomes : RunnerReserve(j, ok)
    \/ \E j \in JobIds, ok \in Outcomes : RunnerCatch(j, ok)

SpecQuota == Init /\ [][NextQuota]_vars

----------------------------------------------------------------------------
(* The lesson cache: lesson requests, skill updates and expiry *)

\* (score, totalQuestions) pairs a client posts
Attempts == {<<4, 10>>, <<7, 10>>, <<8, 10>>}

NextCache ==
    \/ \E u \in Users, ok \in Outcomes : LessonArrive(u, "L1", ok)
    \/ \E i \in ReqIds, ok \in Outcomes : LessonIncr(i, ok)
    \/ \E i \in ReqIds, ok \in Outcomes : LessonSelect(i, ok)
    \/ \E i \in ReqIds, ok \in Outcomes : LessonGet(i, ok)
    \/ \E i \in ReqIds, reply \in LessonReplies : LessonGenerate(i, reply)
    \/ \E i \in ReqIds, ok \in Outcomes : LessonSetEx(i, ok)
    \/ \E i \in ReqIds, ok \in Outcomes : LessonReserve(i, ok)
    \/ \E u \in Users, given \in BOOLEAN, a \in Attempts, ok \in Outcomes :
          SkillArrive(u, "L1", given, a[1], a[2], ok)
    \/ \E i \in ReqIds, ok \in Outcomes : SkillUpdate(i, ok)
    \/ \E i \in ReqIds, ok \in Outcomes : SkillDel(i, ok)
    \/ \E key \in DOMAIN redis : Expire(key)

SpecCache == Init /\ [][NextCache]_vars

----------------------------------------------------------------------------
(* The nightly sweeps: lesson requests during the day, then the cron callback
   running, once or several nights, with no request in between *)

NextWarmer ==
    \/ /\ warmer.pc = "idle" /\ warmer.sweeps = 0
       /\ \/ \E lessonId \in {"L1", "Lx"}, ok \in Outcomes : LessonArrive("u2", lessonId, ok)
          \/ \E i \in ReqIds, ok \in Outcomes : LessonIncr(i, ok)
          \/ \E i \in ReqIds, ok \in Outcomes : LessonSelect(i, ok)
          \/ \E i \in ReqIds, ok \in Outcomes : LessonGet(i, ok)
          \/ \E i \in ReqIds, reply \in {Explained, Rejected} : LessonGenerate(i, reply)
          \/ \E i \in ReqIds, ok \in Outcomes : LessonSetEx(i, ok)
          \/ \E i \in ReqIds, ok \in Outcomes : LessonReserve(i, ok)
    \/ /\ req = <<>>
       /\ \/ \E countKeys \in KeyOrders, ok \in Outcomes : WarmerStart(countKeys, ok)
          \/ \E ok \in Outcomes : WarmerCounts(ok)
          \/ \E ok \in Outcomes : WarmerCurriculum(ok)
          \/ \E ok \in Outcomes : WarmerGet(ok)
          \/ \E reply \in {Explained, Rejected} : WarmerGenerate(reply)
          \/ \E ok \in Outcomes : WarmerSetEx(ok)
          \/ \E key \in DOMAIN redis : Expire(key)

SpecWarmer == Init /\ [][NextWarmer]_vars

----------------------------------------------------------------------------
(* The ranking of a sweep, over counters that earlier days' requests left behind *)

RankedLessons == {"lessonA", "lessonB", "lessonC"}
RankedCounts == {2, 5, 9}

\* the counter keys as INCR leaves them: no expiry, one key per lesson requested
CountersOf(counts) ==
    [k \in {CountKey(l) : l \in DOMAIN counts} |->
        [val |-> counts[k[2]], ttl |-> 0, by |-> [writer |-> "incr"]]]

InitRank ==
    /\ \E present \in SUBSET RankedLessons :
          \E counts \in [present -> RankedCounts] : redis = CountersOf(counts)
    /\ quota_used = [u \in Users |-> InitialUsed(u)]
    /\ quota_limit = [u \in Users |-> QuotaLimit]
    /\ skill_profile = [u \in Users |-> [l \in Lessons |-> Absent]]
    /\ homework_jobs = <<>>
    /\ runner = <<>>
    /\ req = <<>>
    /\ resp = NoResponse
    /\ nreq = 0
    /\ warmer = IdleWarmer
    /\ owed = [u \in Users |-> 0]
    /\ raced = [u \in Users |-> FALSE]
    /\ overlapped = [u \in Users |-> FALSE]

NextRank ==
    \/ \E countKeys \in KeyOrders, ok \in Outcomes : WarmerStart(countKeys, ok)
    \/ \E ok \in Outcomes : WarmerCounts(ok)
    \/ \E ok \in Outcomes : WarmerCurriculum(ok)

SpecRank == InitRank /\ [][NextRank]_vars

----------------------------------------------------------------------------
(* Every caller of a generation: the lesson requests and the homework jobs of one
   user during the day, then, once they are all over, the nightly sweeps *)

NextCalls ==
    \/ /\ warmer.pc = "idle" /\ warmer.sweeps = 0
       /\ \/ \E ok \in Outcomes : LessonArrive("u2", "L1", ok)
          \/ \E i \in ReqIds, ok \in Outcomes : LessonIncr(i, ok)
          \/ \E i \in ReqIds, ok \in Outcomes : LessonSelect(i, ok)
          \/ \E i \in ReqIds, ok \in Outcomes : LessonGet(i, ok)
          \/ \E i \in ReqIds, reply \in {Explained, Rejected} : LessonGenerate(i, reply)
          \/ \E i \in ReqIds, ok \in Outcomes : LessonSetEx(i, ok)
          \/ \E i \in ReqIds, ok \in Outcomes : LessonReserve(i, ok)
          \/ \E ok \in Outcomes : HomeworkSubmit("u2", TRUE, ok)
          \/ \E i \in ReqIds, ok \in Outcomes : HomeworkInsert(i, ok)
          \/ \E j \in JobIds, ok \in Outcomes : RunnerProcessing(j, ok)
          \/ \E j \in JobIds, ok \in Outcomes : RunnerLookup(j, ok)
          \/ \E j \in JobIds, reply \in {Solved, ProviderError} : RunnerGenerate(j, reply)
          \/ \E j \in JobIds, ok \in Outcomes : RunnerComplete(j, ok)
          \/ \E j \in JobIds, ok \in Outcomes : RunnerReserve(j, ok)
          \/ \E j \in JobIds, ok \in Outcomes : RunnerCatch(j, ok)
    \/ /\ req = <<>> /\ \A j \in JobIds : ~RunnerLive(j)
       /\ \/ \E countKeys \in KeyOrders, ok \in Outcomes : WarmerStart(countKeys, ok)
          \/ \E ok \in Outcomes : WarmerCounts(ok)
          \/ \E ok \in Outcomes : WarmerCurriculum(ok)
          \/ \E ok \in Outcomes : WarmerGet(ok)
          \/ \E reply \in {Explained, Rejected} : WarmerGenerate(reply)
          \/ \E ok \in Outcomes : WarmerSetEx(ok)

SpecCalls == Init /\ [][NextCalls]_vars

----------------------------------------------------------------------------
(* The process exits and is started again: the tables and the redis keys stay,
   the suspended handlers, runners and cron callback are gone *)

Lost == [j \in JobIds |-> IF RunnerLive(j) THEN Returned(j, "lost", <<>>)[j] ELSE runner[j]]

\* a start-up that marks the jobs it finds in processing as failed
CrashRecovering ==
    /\ req # <<>> \/ \E j \in JobIds : RunnerLive(j)
    /\ req' = <<>>
    /\ runner' = Lost
    /\ homework_jobs' = [j \in JobIds |->
                            IF homework_jobs[j].status = "processing"
                            THEN [homework_jobs[j] EXCEPT !.status = "failed"]
                            ELSE homework_jobs[j]]
    /\ warmer' = IF warmer.pc = "idle" THEN warmer ELSE Ended("crash")
    /\ UNCHANGED <<quota_used, quota_limit, skill_profile, redis, resp, nreq,
                   owed, raced, overlapped>>

\* the exit and the next start: nothing at start-up looks at homework_jobs
Crash ==
    /\ req # <<>> \/ \E j \in JobIds : RunnerLive(j)
    /\ req' = <<>>
    /\ runner' = Lost
    /\ homework_jobs' = homework_jobs
    /\ warmer' = IF warmer.pc = "idle" THEN warmer ELSE Ended("crash")
    /\ UNCHANGED <<quota_used, quota_limit, skill_profile, redis, resp, nreq,
                   owed, raced, overlapped>>

NextCrash ==
    \/ NextJobs
    \/ Crash

SpecCrash == Init /\ [][NextCrash]_vars

----------------------------------------------------------------------------
(* A client that sends its next request only after the last one was answered *)

NextSerial ==
    \/ /\ \A i \in ReqIds : req[i].user \notin Spenders
       /\ \/ \E u \in Spenders, unitId \in Units, ok \in Outcomes :
                DiagnosticArrive(u, unitId, ok)
          \/ \E u \in Spenders, hasFile \in BOOLEAN, ok \in Outcomes :
                HomeworkSubmit(u, hasFile, ok)
    \/ \E i \in ReqIds, ok \in Outcomes : DiagnosticCurriculum(i, ok)
    \/ \E i \in ReqIds, reply \in JsonReplies : DiagnosticGenerate(i, reply)
    \/ \E i \in ReqIds, ok \in Outcomes : DiagnosticReserve(i, ok)
    \/ \E i \in ReqIds, ok \in Outcomes : HomeworkInsert(i, ok)
    \/ \E j \in JobIds, ok \in Outcomes : RunnerProcessing(j, ok)
    \/ \E j \in JobIds, ok \in Outcomes : RunnerLookup(j, ok)
    \/ \E j \in JobIds, reply \in HomeworkReplies : RunnerGenerate(j, reply)
    \/ \E j \in JobIds, ok \in Outcomes : RunnerComplete(j, ok)
    \/ \E j \in JobIds, ok \in Outcomes : RunnerReserve(j, ok)
    \/ \E j \in JobIds, ok \in Outcomes : RunnerCatch(j, ok)

SpecSerial == Init /\ [][NextSerial]_vars

----------------------------------------------------------------------------
(* Skill updates of one user, for two lessons, with any integers in the body *)

Scores == {-1, 0, 2, 7, 8, 11}
Totals == {-5, 0, 10}

NextSkill ==
    \/ \E lessonId \in {"L1", "L2"}, given \in BOOLEAN, score \in Scores,
          totalQuestions \in Totals, ok \in Outcomes :
          SkillArrive("u1", lessonId, given, score, totalQuestions, ok)
    \/ \E i \in ReqIds, ok \in Outcomes : SkillUpdate(i, ok)
    \/ \E i \in ReqIds, ok \in Outcomes : SkillDel(i, ok)

SpecSkill == Init /\ [][NextSkill]_vars

----------------------------------------------------------------------------
(* The homework pipeline while the process stays up and every write to
   homework_jobs succeeds; a runner goes on whenever the promise it awaits has
   settled *)

\* the next step of the runner of job j, its writes to homework_jobs succeeding
RunnerStep(j) ==
    \/ RunnerProcessing(j, TRUE)
    \/ \E ok \in Outcomes : RunnerLookup(j, ok)
    \/ \E reply \in HomeworkReplies : RunnerGenerate(j, reply)
    \/ RunnerComplete(j, TRUE)
    \/ \E ok \in Outcomes : RunnerReserve(j, ok)
    \/ RunnerCatch(j, TRUE)

NextLive ==
    \/ \E u \in Spenders, hasFile \in BOOLEAN, ok \in Outcomes : HomeworkSubmit(u, hasFile, ok)
    \/ \E i \in ReqIds, ok \in Outcomes : HomeworkInsert(i, ok)
    \/ \E j \in JobIds : RunnerStep(j)

SpecLive ==
    /\ Init /\ [][NextLive]_vars
    /\ \A j \in 1..MaxJobs : WF_vars(RunnerStep(j))

----------------------------------------------------------------------------
(* The whole program over one day and the night after it: every route, one
   request at a time, the job runners (which run on while later requests are
   served), then the cron callback's sweep, and expiry; each external call
   succeeds or fails *)

NextAll ==
    \/ /\ req = <<>> /\ warmer.pc = "idle" /\ warmer.sweeps = 0
       /\ \/ \E ok \in Outcomes : DiagnosticArrive("u2", "U1", ok)
          \/ \E ok \in Outcomes : QuestionsArrive("u2", "L1", ok)
          \/ \E ok \in Outcomes : LessonArrive("u2", "L1", ok)
          \/ \E u \in Users, given \in BOOLEAN, ok \in Outcomes : SkillArrive(u, "L1", given, 8, 10, ok)
          \/ \E hasFile \in BOOLEAN, ok \in Outcomes : HomeworkSubmit("u2", hasFile, ok)
          \/ \E jobId \in 1..MaxJobs, ok \in Outcomes : HomeworkStatus("u2", jobId, ok)
    \/ \E i \in ReqIds, ok \in Outcomes : DiagnosticCurriculum(i, ok)
    \/ \E i \in ReqIds, reply \in {JsonOk, JsonFailed} : DiagnosticGenerate(i, reply)
    \/ \E i \in ReqIds, ok \in Outcomes : DiagnosticReserve(i, ok)
    \/ \E i \in ReqIds, ok \in Outcomes : QuestionsCurriculum(i, ok)
    \/ \E i \in ReqIds, reply \in {JsonOk, JsonFailed} : QuestionsGenerate(i, reply)
    \/ \E i \in ReqIds, ok \in Outcomes : QuestionsReserve(i, ok)
    \/ \E i \in ReqIds, ok \in Outcomes : LessonIncr(i, ok)
    \/ \E i \in ReqIds, ok \in Outcomes : LessonSelect(i, ok)
    \/ \E i \in ReqIds, ok \in Outcomes : LessonGet(i, ok)
    \/ \E i \in ReqIds, reply \in {Explained, Rejected} : LessonGenerate(i, reply)
    \/ \E i \in ReqIds, ok \in Outcomes : LessonSetEx(i, ok)
    \/ \E i \in ReqIds, ok \in Outcomes : LessonReserve(i, ok)
    \/ \E i \in ReqIds, ok \in Outcomes : SkillUpdate(i, ok)
    \/ \E i \in ReqIds, ok \in Outcomes : SkillDel(i, ok)
    \/ \E i \in ReqIds, ok \in Outcomes : HomeworkInsert(i, ok)
    \/ \E j \in JobIds, ok \in Outcomes : RunnerProcessing(j, ok)
    \/ \E j \in JobIds, ok \in Outcomes : RunnerLookup(j, ok)
    \/ \E j \in JobIds, reply \in {Solved, ProviderError} : RunnerGenerate(j, reply)
    \/ \E j \in JobIds, ok \in Outcomes : RunnerComplete(j, ok)
    \/ \E j \in JobIds, ok \in Outcomes : RunnerReserve(j, ok)
    \/ \E j \in JobIds, ok \in Outcomes : RunnerCatch(j, ok)
    \/ /\ req = <<>> /\ \A j \in JobIds : ~RunnerLive(j)
       /\ \/ /\ warmer.sweeps = 0
             /\ \E countKeys \in KeyOrders, ok \in Outcomes : WarmerStart(countKeys, ok)
          \/ \E ok \in Outcomes : WarmerCounts(ok)
          \/ \E ok \in Outcomes : WarmerCurriculum(ok)
          \/ \E ok \in Outcomes : WarmerGet(ok)
          \/ \E reply \in {Explained, Rejected} : WarmerGenerate(reply)
          \/ \E ok \in Outcomes : WarmerSetEx(ok)
          \/ \E key \in DOMAIN redis : Expire(key)

SpecAll == Init /\ [][NextAll]_vars

----------------------------------------------------------------------------
(* Lesson requests that run while the cron callback sweeps *)

NextRace ==
    \/ \E ok \in Outcomes : LessonArrive("u2", "L1", ok)
    \/ \E i \in ReqIds, ok \in Outcomes : LessonIncr(i, ok)
    \/ \E i \in ReqIds, ok \in Outcomes : LessonSelect(i, ok)
    \/ \E i \in ReqIds, ok \in Outcomes : LessonGet(i, ok)
    \/ \E i \in ReqIds, reply \in {Explained, Rejected} : LessonGenerate(i, reply)
    \/ \E i \in ReqIds, ok \in Outcomes : LessonSetEx(i, ok)
    \/ \E i \in ReqIds, ok \in Outcomes : LessonReserve(i, ok)
    \/ \E countKeys \in KeyOrders, ok \in Outcomes : WarmerStart(countKeys, ok)
    \/ \E ok \in Outcomes : WarmerCounts(ok)
    \/ \E ok \in Outcomes : WarmerCurriculum(ok)
    \/ \E ok \in Outcomes : WarmerGet(ok)
    \/ \E reply \in {Explained, Rejected} : WarmerGenerate(reply)
    \/ \E ok \in Outcomes : WarmerSetEx(ok)

SpecRace == Init /\ [][NextRace]_vars

----------------------------------------------------------------------------
(* Claims about the homework pipeline *)

StatusMoves ==
    {<<"pending", "processing">>, <<"processing", "completed">>,
     <<"processing", "failed">>}

\* C1: in every step, a homework job's status either stays or moves along
\* pending->processing, processing->completed or processing->failed, so that a
\* completed or failed job never changes status again.
C1_StatusTransitions ==
    [][\A j \in JobIds :
          homework_jobs'[j].status # homework_jobs[j].status
          => <<homework_jobs[j].status, homework_jobs'[j].status>> \in StatusMoves]_vars

\* C2: a runner invocation that is over wrote exactly one terminal status: completed
\* with a solution, or failed with a failure reason.
C2_ExactlyOneTerminalWrite ==
    \A j \in JobIds :
        ~RunnerLive(j) =>
            \/ /\ runner[j].writes = <<"completed">>
               /\ homework_jobs[j].solution # Null
            \/ /\ runner[j].writes = <<"failed">>
               /\ homework_jobs[j].failure_reason # Null

\* C9: a status poll by the owner, made after the job's runner is over, returns
\* completed with a solution when the generation call succeeded, and failed with a
\* failure reason and no solution when it failed; the runner did not throw.
C9_PollAfterRun ==
    (resp.kind = "status" /\ resp.code = 200 /\ resp.settled) =>
        LET j == resp.target
            b == resp.body IN
        /\ runner[j].gen = "ok" =>
              b.status = "completed" /\ b.solution # Null
        /\ runner[j].gen = "error" =>
              /\ b.status = "failed" /\ b.failureReason # Null
              /\ b.solution = Null /\ runner[j].pc # "threw"

----------------------------------------------------------------------------
(* Claims about the quota ledger *)

\* C3: once a user's operations are all over, and none of them overlapped another,
\* quota_used has grown by exactly the cost of the user's successes (every 200 of a
\* costed request and every job that was marked completed).
C3_NoUndercount ==
    \A u \in Users :
        (InFlight(u) = {} /\ ~overlapped[u]) =>
            quota_used[u] - InitialUsed(u) = owed[u]

\* C4: quota_used exceeds quota_limit only for a user one of whose operations passed
\* its quota check while another one, already past its check, had yet to reserve.
C4_OverrunOnlyByRace ==
    \A u \in Users : quota_used[u] > quota_limit[u] => raced[u]

\* C4: two operations of one user both passed the check before either reserved, both
\* are over, and quota_used is above quota_limit.
C4_Witness ==
    \E u \in Users :
        /\ raced[u] /\ InFlight(u) = {}
        /\ quota_used[u] > quota_limit[u]
        /\ quota_used[u] - InitialUsed(u) = owed[u]

Insufficient(u, kind) == quota_used[u] + Cost(kind) > quota_limit[u]

\* C5: a costed request that arrives when quota_used + cost > quota_limit is never
\* admitted to its handler, and unless the check itself failed (500) or the upload is
\* missing (400) it is answered 402 in a step that calls no generation, creates no
\* job and changes neither quota_used, the redis keys nor the job store.
C5_InsufficientQuota ==
    [][nreq' = nreq + 1 =>
          /\ Len(req') > Len(req) =>
                LET r == req'[Len(req')] IN
                Cost(r.kind) > 0 => ~Insufficient(r.user, r.kind)
          /\ (Len(req') = Len(req) /\ Cost(resp'.kind) > 0
                /\ Insufficient(resp'.user, resp'.kind) /\ resp'.code \notin {400, 500}) =>
                /\ resp'.code = 402 /\ resp'.calls = 0
                /\ UNCHANGED <<quota_used, quota_limit, redis, homework_jobs, runner,
                               skill_profile, req>>]_vars

\* C5: the last request was a costed one, rejected with 402 for lack of quota.
C5_Witness ==
    /\ resp.code = 402 /\ Cost(resp.kind) > 0
    /\ Insufficient(resp.user, resp.kind)
    /\ homework_jobs = <<>> /\ redis = EmptyFn

----------------------------------------------------------------------------
(* Claims about the lesson cache and the skill profile *)

\* the entry under key k was stored by a lesson request of another user than r's,
\* for r's lesson and at r's confidence
StoredByOther(k, r) ==
    /\ k[1] = "lesson"
    /\ redis[k].by.writer = "request"
    /\ redis[k].by.user # r.user
    /\ redis[k].by.lessonId = r.target
    /\ redis[k].by.confidence = r.conf

\* C6: when a lesson request of user B looks up the cache while an entry stored by
\* a request of another user A, for the same lesson and the same confidence, is
\* present, then unless the lookup itself fails (500) B is answered 200 with exactly
\* the content and keywords A's request stored, and no generation call is made.
C6_SameTierSharing ==
    [][\A i \in ReqIds : \A k \in DOMAIN redis :
          (/\ At(i, "lesson", "get")
           /\ StoredByOther(k, req[i])
           /\ ~\E j \in DOMAIN req' : req'[j].id = req[i].id /\ req'[j].pc = "get")
          => /\ req' = RemoveAt(req, i)
             /\ \/ resp' = Response(req[i], 500, Error(LessonFailed))
                \/ /\ resp' = Response(req[i], 200, Parse(redis[k].val))
                   /\ resp'.calls = 0]_vars

\* C6: the last request was a lesson request answered 200 without a generation
\* call, with the content that another user's request stored for that lesson.
C6_Witness ==
    /\ resp.kind = "lesson" /\ resp.code = 200 /\ resp.calls = 0
    /\ \E k \in DOMAIN redis :
          /\ k[1] = "lesson"
          /\ redis[k].by.writer = "request"
          /\ redis[k].by.user # resp.user
          /\ redis[k].by.lessonId = resp.target
          /\ resp.body = Parse(redis[k].val)

\* C10: a stored skill record whose masteryScore is exactly 7/10 has confidence
\* "high".
C10_SevenTenthsIsHigh ==
    \A u \in Users, l \in Lessons :
        (skill_profile[u][l] # Absent
           /\ skill_profile[u][l].masteryScore = [num |-> 7, den |-> 10])
        => skill_profile[u][l].confidence = "high"

----------------------------------------------------------------------------
(* Claims about the nightly sweeps *)

\* C7: with no other operation running, every entry that was present when a sweep
\* started and has not expired since is still there with the same value, expiry and
\* write instant, and the sweep made no generation call for a key that was present:
\* so a second sweep right after a first one leaves the first one's entries alone.
C7_WarmerIdempotent ==
    /\ \A k \in DOMAIN warmer.before : Cached(k) /\ redis[k] = warmer.before[k]
    /\ \A n \in 1..Len(warmer.calls) : warmer.calls[n] \notin DOMAIN warmer.before

\* C7: a second sweep has run to its end without a generation call, over entries
\* that the first sweep wrote.
C7_Witness ==
    /\ warmer.pc = "idle" /\ warmer.sweeps = 2 /\ warmer.last = "done"
    /\ warmer.calls = <<>>
    /\ \E k \in DOMAIN warmer.before :
          /\ warmer.before[k].by = [writer |-> "warmer", n |-> 1]
          /\ k \in warmer.checked /\ Cached(k) /\ redis[k] = warmer.before[k]

\* the (lesson, confidence) combinations of the selected lessons of the curriculum
Combinations ==
    {cacheKey(warmer.popular[n].lessonId, confidenceLevels[t]) :
        n \in {m \in 1..Len(warmer.popular) : warmer.popular[m].lessonId \in Curriculum},
        t \in 1..Len(confidenceLevels)}

\* C8: a sweep in which a generation call or a cache write failed has, when it is
\* over, still looked up every combination of the selected lessons.
C8_SweepContinues ==
    (warmer.pc = "idle" /\ warmer.last \in {"generate", "setEx"})
        => Combinations \subseteq warmer.checked

\* the counters of the key space, as a set of { lessonId, count }
Counters == {LessonCount(k) : k \in {x \in DOMAIN redis : x[1] = "lesson_count"}}

\* selection is n of the counters (all of them when there are fewer), each once,
\* in non-increasing order of count, and no counter left out has a greater count
\* than one that is in
Ranked(selection, n) ==
    /\ Len(selection) = IF Cardinality(Counters) < n THEN Cardinality(Counters) ELSE n
    /\ \A a \in 1..Len(selection) : selection[a] \in Counters
    /\ \A a, b \in 1..Len(selection) :
          /\ a # b => selection[a].lessonId # selection[b].lessonId
          /\ a < b => selection[a].count >= selection[b].count
    /\ \A c \in Counters :
          (\A a \in 1..Len(selection) : selection[a] # c)
              => \A a \in 1..Len(selection) : c.count <= selection[a].count

ExampleCounters ==
    {[lessonId |-> "lessonA", count |-> 5], [lessonId |-> "lessonB", count |-> 9],
     [lessonId |-> "lessonC", count |-> 2]}

\* C11: the lessons a sweep selected are the first N = 10 of the counters by count
\* descending; and in whatever order the keys come, the first n by count descending
\* are ranked for every n, with [lessonB, lessonA] for the counters
\* {lessonA: 5, lessonB: 9, lessonC: 2} and n = 2.
C11_TopNSelection ==
    /\ warmer.pc = "curriculum" => Ranked(warmer.popular, TopN)
    /\ \A countKeys \in KeyOrders :
          /\ \A n \in 1..Cardinality(RankedLessons) :
                Ranked(Select(LessonCounts(countKeys), n), n)
          /\ Counters = ExampleCounters =>
                Select(LessonCounts(countKeys), 2)
                    = <<[lessonId |-> "lessonB", count |-> 9],
                        [lessonId |-> "lessonA", count |-> 5]>>

\* C11: a sweep has ranked the counters {lessonA: 5, lessonB: 9, lessonC: 2}, and
\* lessonB and lessonA are its first two.
C11_Witness ==
    /\ warmer.pc = "curriculum" /\ Counters = ExampleCounters
    /\ Slice(warmer.popular, 2) = <<[lessonId |-> "lessonB", count |-> 9],
                                    [lessonId |-> "lessonA", count |-> 5]>>

\* the popularity count of a lesson in a key space: a missing counter is 0
CountIn(store, lessonId) ==
    IF CountKey(lessonId) \in DOMAIN store THEN store[CountKey(lessonId)].val ELSE 0

\* the lesson requests for lessonId whose INCR is awaited before the step and
\* which are past it after the step
Counted(lessonId) ==
    {i \in ReqIds :
        /\ At(i, "lesson", "incr") /\ req[i].target = lessonId
        /\ \E j \in DOMAIN req' : req'[j].id = req[i].id /\ req'[j].pc # "incr"}

\* C12: in every step a lesson's counter grows by one for each lesson request for
\* it that gets past its INCR in that step, and changes in no other way; a lesson
\* request reaches the rest of its handler only through its INCR, and is answered
\* 200 (from the cache or after a generation call) only after it.
C12_CountedOnce ==
    [][/\ \A l \in Lessons :
             CountIn(redis', l) = CountIn(redis, l) + Cardinality(Counted(l))
       /\ \A j \in DOMAIN req' :
             (req'[j].kind = "lesson" /\ req'[j].pc # "incr")
                 => \E i \in ReqIds : req[i].id = req'[j].id
       /\ \A i \in ReqIds :
             (/\ req[i].kind = "lesson"
              /\ ~\E j \in DOMAIN req' : req'[j].id = req[i].id
              /\ resp'.code = 200)
                 => req[i].pc \in {"get", "reserve"}]_vars

\* C12: two lesson requests for one lesson are over, the last one served from the
\* cache, and the lesson's counter is 2.
C12_Witness ==
    /\ req = <<>> /\ nreq = 2
    /\ resp.kind = "lesson" /\ resp.code = 200 /\ resp.calls = 0
    /\ CountIn(redis, resp.target) = 2

\* the awaits of the lesson and skill-update handlers that are redis commands
CacheAwaits == {"incr", "get", "setEx", "del"}

\* C13: a lesson request or a skill update that is waiting for the cache (INCR,
\* GET, SETEX or DEL) is never answered 500 in its next step: a cache that cannot be
\* reached makes no request fail.
C13_CacheNeverFails ==
    [][\A i \in ReqIds :
          (/\ req[i].kind \in {"lesson", "skill"}
           /\ req[i].pc \in CacheAwaits
           /\ ~\E j \in DOMAIN req' : req'[j].id = req[i].id)
              => resp'.code # 500]_vars

\* request i is answered in the step
Answered(i) == ~\E j \in DOMAIN req' : req'[j].id = req[i].id

\* C14: quota_used of a user changes only in the reserve step of one of the user's
\* operations, by that operation's cost, after the operation's generation call
\* returned and its output was accepted (the request is then answered 200, the job
\* is completed); a step that answers a request with anything but 200, or in which
\* a job runner fails, leaves every quota_used unchanged.
C14_ReserveAfterSuccess ==
    [][/\ \A u \in Users :
             quota_used'[u] # quota_used[u] =>
                \/ \E i \in ReqIds :
                      /\ req[i].user = u /\ req[i].pc = "reserve"
                      /\ req[i].calls = 1 /\ req[i].data # NoData
                      /\ Answered(i) /\ resp' = Response(req[i], 200, req[i].data)
                      /\ quota_used'[u] = quota_used[u] + Cost(req[i].kind)
                \/ \E j \in JobIds :
                      /\ homework_jobs[j].user_id = u /\ runner[j].pc = "reserve"
                      /\ runner[j].gen = "ok" /\ homework_jobs[j].status = "completed"
                      /\ runner'[j].pc = "done"
                      /\ quota_used'[u] = quota_used[u] + CostHomework
       /\ (resp' # resp /\ resp'.code # 200) => quota_used' = quota_used
       /\ \A j \in JobIds :
             (runner'[j] # runner[j] /\ runner'[j].pc \in {"catch", "threw"})
                 => quota_used' = quota_used]_vars

\* C14: of two costed requests of a user, one was answered 200 after its one
\* generation call and the other one failed: the user was charged for one.
C14_Witness ==
    /\ req = <<>> /\ nreq = 2 /\ homework_jobs = <<>>
    /\ resp.code = 200 /\ resp.calls = 1 /\ Cost(resp.kind) > 0
    /\ owed[resp.user] = Cost(resp.kind)
    /\ quota_used[resp.user] = InitialUsed(resp.user) + Cost(resp.kind)

\* C15: in the step that answers a skill update 200, whatever the user's confidence
\* was before, the cache is left without an entry for the lesson under the
\* confidence the update computed.
C15_InvalidatedOnUpdate ==
    [][\A i \in ReqIds :
          (At(i, "skill", "del") /\ Answered(i) /\ resp'.code = 200)
              => cacheKey(req[i].target, req[i].prof[req[i].target].confidence)
                     \notin DOMAIN redis']_vars

\* C15: a lesson request stored an entry at confidence low and is about to be
\* answered, a skill update of the same lesson that left its user at low was
\* answered 200, and there is no entry for the lesson at low.
C15_Witness ==
    /\ resp.kind = "skill" /\ resp.code = 200
    /\ skill_profile[resp.user][resp.target] # Absent
    /\ skill_profile[resp.user][resp.target].confidence = "low"
    /\ \E i \in ReqIds : /\ At(i, "lesson", "reserve") /\ req[i].target = resp.target
                         /\ req[i].conf = "low"
    /\ ~Cached(cacheKey(resp.target, "low"))

C17_PollScopedToOwner ==
    [][(nreq' = nreq + 1 /\ req' = req /\ resp'.kind = "status") =>
          LET u == resp'.user
              j == resp'.target
              owned == j \in JobIds /\ homework_jobs[j].user_id = u IN
          /\ resp'.code \in {200, 404, 500}
          /\ resp'.code = 200 =>
                /\ owned
                /\ resp'.body = [status |-> homework_jobs[j].status,
                                 solution |-> homework_jobs[j].solution,
                                 failureReason |-> homework_jobs[j].failure_reason]
          /\ (~owned /\ resp'.code # 500) =>
                /\ resp'.code = 404
                /\ resp'.body = [error |-> "Job not found."]
                /\ ~resp'.settled /\ resp'.calls = 0
          /\ UNCHANGED <<homework_jobs, runner>>]_vars

\* C17: a user polled a completed job of another user and was answered 404.
C17_Witness ==
    /\ resp.kind = "status" /\ resp.code = 404
    /\ resp.target \in JobIds
    /\ homework_jobs[resp.target].user_id # resp.user
    /\ homework_jobs[resp.target].status = "completed"

\* C18: the step in which a costed request arrives changes neither quota_used nor
\* quota_limit; the request goes on to its handler only if quota_used + cost <=
\* quota_limit at that moment, and otherwise, unless the upload is missing (400) or
\* the SELECT fails (500), it is answered 402 and quota_used + cost > quota_limit.
C18_CheckReadsOnly ==
    [][nreq' = nreq + 1 =>
          /\ UNCHANGED <<quota_used, quota_limit>>
          /\ Len(req') > Len(req) =>
                LET r == req'[Len(req')] IN
                Cost(r.kind) > 0 =>
                    quota_used[r.user] + Cost(r.kind) <= quota_limit[r.user]
          /\ (req' = req /\ Cost(resp'.kind) > 0 /\ resp'.code \notin {400, 500}) =>
                /\ resp'.code = 402
                /\ quota_used[resp'.user] + Cost(resp'.kind) > quota_limit[resp'.user]]_vars

\* C18: a homework submission whose cost brings quota_used exactly to quota_limit
\* passed the check, and quota_used is what it was.
C18_Witness ==
    \E i \in ReqIds :
        /\ At(i, "homework", "insert")
        /\ quota_used[req[i].user] + CostHomework = quota_limit[req[i].user]
        /\ quota_used[req[i].user] = InitialUsed(req[i].user)

\* C19: a request makes its generation call at most once, from the one place of its
\* handler where the call is awaited; the runner of a job makes its call at most
\* once, after its lookup, and a job that is failed is left alone by every step;
\* the calls of one sweep are for different (lesson, confidence) keys.
C19_NoRetry ==
    [][/\ \A j \in JobIds :
             /\ (runner'[j].pc = "generate" /\ runner[j].pc # "generate")
                    => (runner[j].pc = "lookup" /\ runner[j].gen = "none")
             /\ runner[j].gen # "none" => runner'[j].gen = runner[j].gen
             /\ runner'[j].gen # runner[j].gen => runner[j].pc = "generate"
             /\ homework_jobs[j].status = "failed"
                    => (runner'[j] = runner[j] /\ homework_jobs'[j] = homework_jobs[j])
       /\ \A i \in ReqIds : \A j \in DOMAIN req' :
             req'[j].id = req[i].id =>
                /\ req'[j].calls <= 1
                /\ req'[j].calls # req[i].calls
                       => (req[i].calls = 0 /\ req[i].pc = "generate")
       /\ resp'.calls <= 1
       /\ \A a, b \in 1..Len(warmer'.calls) :
             a # b => warmer'.calls[a] # warmer'.calls[b]]_vars

\* C19: a job failed on its one generation call and its runner is over; a sweep
\* ended on a generation call that failed, the only call it made.
C19_Witness ==
    /\ \E j \in JobIds : /\ homework_jobs[j].status = "failed"
                         /\ runner[j].gen = "error" /\ runner[j].pc = "done"
    /\ warmer.pc = "idle" /\ warmer.last = "generate" /\ Len(warmer.calls) = 1

\* C20: a job that is in processing when the process exits, or whose runner was
\* lost in an earlier exit, is changed by no step: it stays in processing.
C20_StuckInProcessing ==
    [][\A j \in JobIds :
          (/\ homework_jobs[j].status = "processing"
           /\ runner[j].pc = "lost" \/ runner'[j].pc = "lost")
              => homework_jobs'[j] = homework_jobs[j]]_vars

\* C20: the runner of a job was lost while the job was in processing, and a poll
\* by the job's user that came when the runner was no longer there was answered
\* with status processing.
C20_Witness ==
    /\ resp.kind = "status" /\ resp.code = 200
    /\ resp.target \in JobIds
    /\ runner[resp.target].pc = "lost"
    /\ homework_jobs[resp.target].status = "processing"
    /\ resp.body.status = "processing" /\ resp.settled

\* C21: a failed job has no solution and has a failure reason; a completed job has
\* a solution and no failure reason.
C21_TerminalFields ==
    \A j \in JobIds :
        /\ homework_jobs[j].status = "failed" =>
              /\ homework_jobs[j].solution = Null
              /\ homework_jobs[j].failure_reason # Null
        /\ homework_jobs[j].status = "completed" =>
              /\ homework_jobs[j].solution # Null
              /\ homework_jobs[j].failure_reason = Null

\* C22: when every request of a user arrives after the user's last one was
\* answered, quota_used stays at or below quota_limit, homework submissions
\* included.
C22_SerialNeverOverruns ==
    \A u \in Users : quota_used[u] <= quota_limit[u]

\* C23: when a skill update is answered 200, the user's profile holds a record for
\* the lesson of that update, whatever other updates of the user ran meanwhile.
C23_NoLostUpdate ==
    [][\A i \in ReqIds :
          (At(i, "skill", "del") /\ Answered(i) /\ resp'.code = 200)
              => skill_profile'[req[i].user][req[i].target] # Absent]_vars

\* C24: every reserve that completes (a request answered 200 from its reserve, a
\* runner that returns from its reserve) leaves quota_used of its user at the value
\* it had just before plus the cost, whatever else is in flight and whatever the
\* limit, and leaves the other users alone: no increment is lost.
C24_ReserveAddsCost ==
    [][/\ \A i \in ReqIds :
             (req[i].pc = "reserve" /\ Answered(i) /\ resp'.code = 200)
                 => quota_used' = [quota_used EXCEPT
                                     ![req[i].user] = @ + Cost(req[i].kind)]
       /\ \A j \in JobIds :
             (runner[j].pc = "reserve" /\ runner'[j].pc = "done")
                 => quota_used' = [quota_used EXCEPT
                                     ![homework_jobs[j].user_id] = @ + CostHomework]]_vars

\* C24: a diagnostic test and a homework job of one user overlapped, both reserved
\* and are over, and quota_used has grown by the sum of the two costs.
C24_Witness ==
    \E u \in Users :
        /\ overlapped[u] /\ InFlight(u) = {} /\ nreq = 2
        /\ \E j \in JobIds : homework_jobs[j].user_id = u /\ runner[j].pc = "done"
                             /\ homework_jobs[j].status = "completed"
        /\ quota_used[u] = InitialUsed(u) + CostDiagnostic + CostHomework

\* C25: while the process stays up, the generation call returns or rejects and the
\* writes to homework_jobs succeed, every job that was submitted is eventually
\* completed or failed.
C25_JobsTerminate ==
    \A j \in 1..MaxJobs :
        (j \in JobIds) ~> (j \in JobIds /\ homework_jobs[j].status \in {"completed", "failed"})

\* C25: a job whose generation call was rejected is failed and its runner is over.
C25_Witness ==
    \E j \in JobIds : /\ homework_jobs[j].status = "failed" /\ runner[j].pc = "done"
                      /\ runner[j].gen = "error"

\* C26: also with lesson requests running during a sweep, an entry written by the
\* warmer under a key that had an entry just before the step is that same entry:
\* the warmer writes only keys that have no entry at the moment of the write.
C26_WarmerNeverReplaces ==
    [][\A k \in DOMAIN redis' :
          (k[1] = "lesson" /\ redis'[k].by.writer = "warmer" /\ k \in DOMAIN redis)
              => redis'[k] = redis[k]]_vars

\* the sweep looks up WarmerKey in this step: the lookup did not reject
Looked == warmer.pc = "get" /\ WarmerKey \in warmer'.checked \ warmer.checked

\* C27: when a sweep in which no generation call failed is over, every combination
\* of a selected lesson of the curriculum with low, medium or high has a cache
\* entry; and a sweep goes on to a generation call from a lookup exactly when the
\* lookup found no entry, its list of generation calls growing by that key only.
C27_SweepFillsSelection ==
    /\ []((warmer.pc = "idle" /\ warmer.sweeps > 0 /\ warmer.last # "generate")
            => \A k \in Combinations : Cached(k))
    /\ [][/\ Looked => (warmer'.pc = "generate" <=> ~Cached(WarmerKey))
          /\ (warmer.pc # "generate" /\ warmer'.pc = "generate") => Looked
          /\ warmer'.calls # warmer.calls
                => \/ warmer.pc = "idle" /\ warmer'.calls = <<>>
                   \/ warmer.pc = "generate" /\ warmer'.calls = Append(warmer.calls, WarmerKey)
         ]_vars

\* the confidence of user u's skill record for lessonId, low when there is none
StoredTier(u, lessonId) ==
    IF skill_profile[u][lessonId] = Absent THEN "low"
    ELSE skill_profile[u][lessonId].confidence

\* request r as it is after the step, if it is still in flight
Later(r) == {req'[j] : j \in {x \in DOMAIN req' : req'[x].id = r.id}}

\* C28: a lesson request of user u for lesson L takes as its confidence t the one
\* stored in u's skill record for L when it reads the profile (low without a
\* record) and keeps it; its lookup is answered from the entry under
\* cacheKey(L, t) when there is one and goes on to generate exactly when there is
\* none; and the only lesson entry a step of it writes is the one under
\* cacheKey(L, t), a key made of the lesson and the tier alone.
C28_KeyFromStoredTier ==
    [][\A i \in ReqIds : req[i].kind = "lesson" =>
          LET r == req[i]
              key == cacheKey(r.target, r.conf) IN
          /\ \A l \in Later(r) :
                /\ (r.pc = "select" /\ l.pc = "get") => l.conf = StoredTier(r.user, r.target)
                /\ r.pc \in {"get", "generate", "setEx", "reserve"} => l.conf = r.conf
          /\ (r.pc = "get" /\ \A l \in Later(r) : l.pc # "get")
                => \/ resp' = Response(r, 500, Error(LessonFailed)) /\ Answered(i)
                   \/ /\ Cached(key) /\ Answered(i)
                      /\ resp' = Response(r, 200, Parse(redis[key].val))
                   \/ ~Cached(key) /\ \A l \in Later(r) : l.pc = "generate"
          /\ \A k \in DOMAIN redis' :
                (/\ k[1] = "lesson" /\ redis'[k].by.writer = "request"
                 /\ redis'[k].by.n = r.id
                 /\ (Cached(k) => redis'[k] # redis[k]))
                    => r.pc = "setEx" /\ k = key /\ r.conf \in {"low", "medium", "high"}
      ]_vars

\* C28: a lesson request of a user whose skill record says high was answered 200
\* after it stored its entry under the key of the lesson and high.
C28_Witness ==
    /\ resp.kind = "lesson" /\ resp.code = 200 /\ resp.calls = 1
    /\ \E k \in DOMAIN redis :
          /\ k = cacheKey(resp.target, "high")
          /\ redis[k].by.writer = "request" /\ redis[k].by.user = resp.user
          /\ StoredTier(resp.user, resp.target) = "high"

\* the skill records that are stored
StoredRecords ==
    {skill_profile[p[1]][p[2]] :
        p \in {q \in Users \X Lessons : skill_profile[q[1]][q[2]] # Absent}}

\* mastery < tenths / 10
Below(mastery, tenths) == mastery.num * 10 < tenths * mastery.den

\* C29: every stored skill record has 0 <= masteryScore <= 1, and its confidence is
\* high above 0.7, medium between 0.4 and 0.7 and low below 0.4 (a masteryScore that
\* is exactly a threshold may have either tier next to it).
C29_MasteryInRange ==
    \A s \in StoredRecords :
        /\ s.masteryScore.den > 0
        /\ 0 <= s.masteryScore.num /\ s.masteryScore.num <= s.masteryScore.den
        /\ Above(s.masteryScore, 7) => s.confidence = "high"
        /\ (Below(s.masteryScore, 7) /\ Above(s.masteryScore, 4)) => s.confidence = "medium"
        /\ Below(s.masteryScore, 4) => s.confidence = "low"
        /\ s.confidence \in {"low", "medium", "high"}

----------------------------------------------------------------------------
(* Claims about the ownership of job rows *)

\* C30: every job has one runner invocation, started with the row; a step that
\* changes the row of job j is a step of the live invocation of job j and changes
\* no other row and no other invocation; an invocation that is over stays over and
\* none starts again, so no job is processed twice; and a submission only adds a
\* pending row with its own invocation.
C30_RowOwnedByRunner ==
    [][/\ Len(runner') = Len(homework_jobs')
       /\ Len(homework_jobs') >= Len(homework_jobs)
       /\ \A j \in JobIds :
             /\ homework_jobs'[j] # homework_jobs[j]
                   => /\ RunnerLive(j) /\ runner'[j] # runner[j]
                      /\ \A k \in JobIds \ {j} :
                            homework_jobs'[k] = homework_jobs[k] /\ runner'[k] = runner[k]
             /\ ~RunnerLive(j) => runner'[j] = runner[j]
             /\ runner'[j].pc = "processing" => runner[j].pc = "processing"
       /\ Len(homework_jobs') > Len(homework_jobs)
             => /\ Len(homework_jobs') = Len(homework_jobs) + 1
                /\ homework_jobs'[Len(homework_jobs')].status = "pending"
                /\ runner'[Len(runner')] = NewRunner
                /\ \A j \in JobIds : homework_jobs'[j] = homework_jobs[j]
      ]_vars

\* C30: two jobs are in flight at once; the first has been completed by its
\* invocation while the row of the second still says processing.
C30_Witness ==
    /\ Len(homework_jobs) = 2
    /\ homework_jobs[1].status = "completed" /\ runner[1].pc = "reserve"
    /\ runner[1].writes = <<"completed">>
    /\ homework_jobs[2].status = "processing" /\ homework_jobs[2].solution = Null
    /\ runner[2].pc = "generate" /\ runner[2].writes = <<>>

----------------------------------------------------------------------------
(* Claims about what each operation leaves alone *)

\* C31: a step that changes the skill profile of user u is the UPDATE of a skill
\* update of u, and it leaves the profile of every other user as it is; so no
\* step of any other operation changes any skill record.
C31_SkillOwnedByUpdate ==
    [][\A u \in Users :
          skill_profile'[u] # skill_profile[u]
              => /\ \E i \in ReqIds :
                       /\ At(i, "skill", "update") /\ req[i].user = u
                       /\ \A l \in Later(req[i]) : l.pc = "del"
                       /\ skill_profile'[u] = req[i].prof
                 /\ \A v \in Users \ {u} : skill_profile'[v] = skill_profile[v]
      ]_vars

\* C31: u1 has a skill record, u2 has none, and since then a lesson request of u2
\* was answered 200 and a sweep has run to its end.
C31_Witness ==
    /\ skill_profile["u1"]["L1"] # Absent /\ skill_profile["u2"]["L1"] = Absent
    /\ resp.kind = "lesson" /\ resp.user = "u2" /\ resp.code = 200
    /\ warmer.sweeps = 1 /\ warmer.last = "done"

\* the cron callback takes a step: its position or its locals change (before is
\* the record of the cache at the start of the sweep, which expiry prunes)
WarmerActs == [warmer' EXCEPT !.before = EmptyFn] # [warmer EXCEPT !.before = EmptyFn]

\* the popularity counters that exist, with their values
PopularityCounters(store) ==
    [k \in {x \in DOMAIN store : x[1] = "lesson_count"} |-> store[k].val]

\* C32: a step of a sweep leaves every quota_used and quota_limit, every skill
\* record, every homework job and every popularity counter as they are; what it
\* changes in the store are lesson cache entries only.
C32_SweepWritesCacheOnly ==
    [][WarmerActs
          => /\ quota_used' = quota_used /\ quota_limit' = quota_limit
             /\ skill_profile' = skill_profile
             /\ homework_jobs' = homework_jobs
             /\ PopularityCounters(redis') = PopularityCounters(redis)
             /\ \A k \in (DOMAIN redis \cup DOMAIN redis') :
                   k[1] # "lesson" => k \in DOMAIN redis /\ k \in DOMAIN redis'
                                      /\ redis'[k] = redis[k]
      ]_vars

\* C32: a sweep that made a generation call and stored its entry has run to its
\* end while a counter, a charged quota and a skill record were there.
C32_Witness ==
    /\ warmer.sweeps = 1 /\ warmer.last = "done" /\ warmer.calls # <<>>
    /\ \E k \in DOMAIN redis : k[1] = "lesson" /\ redis[k].by.writer = "warmer"
    /\ Cached(CountKey("L1")) /\ redis[CountKey("L1")].val = 1
    /\ quota_used["u2"] = CostLesson
    /\ skill_profile["u1"]["L1"] # Absent

\* C33: in every step, every popularity counter that exists still exists after
\* the step and its value has not gone down.
C33_CountersMonotonic ==
    [][\A k \in DOMAIN redis :
          k[1] = "lesson_count"
              => k \in DOMAIN redis' /\ redis'[k].val >= redis[k].val]_vars

\* C33: two lesson requests were counted and the counter of L1 still stands at 2 after a sweep that selected the lesson has run to its end.
C33_Witness ==
    /\ Cached(CountKey("L1")) /\ redis[CountKey("L1")].val = 2
    /\ warmer.sweeps = 1 /\ warmer.last = "done"
    /\ \E n \in 1..Len(warmer.popular) : warmer.popular[n] = [lessonId |-> "L1", count |-> 2]

\* C34: in every reachable state every user's quota_limit is the 1000 of
\* registration, and no step makes any user's quota_used smaller.
C34_QuotaMonotonic ==
    /\ [](\A u \in Users : quota_limit[u] = QuotaLimit)
    /\ [][\A u \in Users : quota_used'[u] >= quota_used[u]]_vars

\* C34: u2 was charged for a lesson and for a homework job, and a sweep has run.
C34_Witness ==
    /\ quota_used["u2"] = InitialUsed("u2") + CostLesson + CostHomework
    /\ quota_limit["u2"] = QuotaLimit
    /\ warmer.sweeps = 1

----------------------------------------------------------------------------
(* Claims about the life of cache entries *)

\* C35: every lesson entry stored by a request has a time-to-live of 3600 s and
\* every one stored by the warmer 86400 s; and a key whose entry has expired is
\* absent to the readers: a lesson request that looks it up is not answered from
\* the cache, and a sweep that looks it up goes on to generate.
C35_TimeToLive ==
    /\ [](\A k \in DOMAIN redis :
             k[1] = "lesson"
                 => /\ redis[k].by.writer = "request" => redis[k].ttl = RequestTtl
                    /\ redis[k].by.writer = "warmer" => redis[k].ttl = WarmerTtl
                    /\ redis[k].by.writer \in {"request", "warmer"})
    /\ [][/\ \A i \in ReqIds :
                (/\ At(i, "lesson", "get") /\ ~Cached(cacheKey(req[i].target, req[i].conf))
                 /\ \A l \in Later(req[i]) : l.pc # "get")
                    => \/ \A l \in Later(req[i]) : l.pc = "generate"
                       \/ Answered(i) /\ resp'.code = 500
          /\ (Looked /\ ~Cached(WarmerKey)) => warmer'.pc = "generate"
         ]_vars

\* C35: the entry that a first lesson request stored has expired, and a second
\* request for the same lesson and tier made its own generation call and stored
\* the entry again, with 3600 s to live.
C35_Witness ==
    /\ resp.kind = "lesson" /\ resp.code = 200 /\ resp.calls = 1
    /\ quota_used["u2"] = InitialUsed("u2") + 2 * CostLesson
    /\ Cached(cacheKey("L1", "low"))
    /\ redis[cacheKey("L1", "low")].by.writer = "request"
    /\ redis[cacheKey("L1", "low")].by.n = 2
    /\ redis[cacheKey("L1", "low")].ttl = RequestTtl

\* C36: a step of a skill update for lesson L adds no entry to the store, and the
\* only entry it can remove or change is that of L under the tier of the record
\* it has just computed, in its del step: the entries of L under the other tiers
\* and those of every other lesson stay as they are.
C36_OnlyNewTierInvalidated ==
    [][\A i \in ReqIds :
          (req[i].kind = "skill" /\ \A l \in Later(req[i]) : l.pc # req[i].pc)
              => /\ DOMAIN redis' \subseteq DOMAIN redis
                 /\ \A k \in DOMAIN redis :
                       (k \notin DOMAIN redis' \/ redis'[k] # redis[k])
                           => /\ req[i].pc = "del"
                              /\ k = cacheKey(req[i].target,
                                               req[i].prof[req[i].target].confidence)
      ]_vars

\* C36: a skill update that moved its user from low to another tier was answered
\* 200, and the entry that the user's earlier lesson request stored under low is
\* still in the cache.
C36_Witness ==
    /\ resp.kind = "skill" /\ resp.code = 200
    /\ StoredTier(resp.user, resp.target) # "low"
    /\ Cached(cacheKey(resp.target, "low"))
    /\ redis[cacheKey(resp.target, "low")].by.writer = "request"
    /\ redis[cacheKey(resp.target, "low")].by.user = resp.user

----------------------------------------------------------------------------
(* Claims about ties in the ranking *)

\* where the counter of lessonId stands in the list of keys
Position(countKeys, lessonId) ==
    CHOOSE n \in 1..Len(countKeys) : countKeys[n][2] = lessonId

\* among equal counts, selection follows the order of countKeys: two selected
\* lessons with the same count stand as their keys do, and a lesson left out
\* stands, in countKeys, behind every selected lesson with the same count
Stable(selection, countKeys) ==
    /\ \A a, b \in 1..Len(selection) :
          (a < b /\ selection[a].count = selection[b].count)
              => Position(countKeys, selection[a].lessonId)
                     < Position(countKeys, selection[b].lessonId)
    /\ \A a \in 1..Len(selection), c \in 1..Len(countKeys) :
          (/\ LessonCount(countKeys[c]).count = selection[a].count
           /\ \A b \in 1..Len(selection) : selection[b].lessonId # countKeys[c][2])
              => Position(countKeys, selection[a].lessonId) < c

\* C37: lessons with equal counts are selected in the order in which the store
\* listed their counters, and that order decides which of them are inside the
\* first n, for every n and every order of the keys; and the ranking step of a
\* sweep selects in this way from the keys it was given.
C37_TiesKeepListingOrder ==
    /\ [](\A countKeys \in KeyOrders : \A n \in 1..Cardinality(RankedLessons) :
             Stable(Select(LessonCounts(countKeys), n), countKeys))
    /\ [][(warmer.pc = "counts" /\ warmer'.pc = "curriculum")
             => Stable(warmer'.popular, warmer.keys)]_vars

\* C37: a sweep has ranked three counters of which the first two selected have
\* the same count and the third has a smaller one.
C37_Witness ==
    /\ warmer.pc = "curriculum" /\ Len(warmer.popular) = 3
    /\ warmer.popular[1].count = warmer.popular[2].count
    /\ warmer.popular[3].count < warmer.popular[2].count

----------------------------------------------------------------------------
(* Claims about rejected requests *)

\* C38: a 400 is sent only in the step in which the request arrives, by a skill
\* update or a homework submission, before any await and without a generation
\* call; and that step leaves every skill record, every key of the store (cache
\* entries and popularity counters), every job and its runner, every quota_used
\* and quota_limit and the cron callback as they are.
C38_ValidationChangesNothing ==
    [][/\ (resp' # resp /\ resp'.code = 400) => (nreq' = nreq + 1 /\ req' = req)
       /\ (nreq' = nreq + 1 /\ req' = req /\ resp'.code = 400)
             => /\ resp'.kind \in {"skill", "homework"}
                /\ resp'.calls = 0
                /\ resp'.body \in {Error("Score and totalQuestions are required."),
                                    Error("No image file uploaded.")}
                /\ skill_profile' = skill_profile
                /\ redis' = redis
                /\ homework_jobs' = homework_jobs /\ runner' = runner
                /\ quota_used' = quota_used /\ quota_limit' = quota_limit
                /\ warmer' = warmer
      ]_vars

\* C38: a skill update without score or totalQuestions was answered 400 while a
\* cache entry, a counter and a charged quota were there, and the user still has
\* no skill record.
C38_Witness ==
    /\ resp.kind = "skill" /\ resp.code = 400 /\ nreq = 2
    /\ skill_profile[resp.user][resp.target] = Absent
    /\ Cached(cacheKey("L1", "low")) /\ Cached(CountKey("L1"))
    /\ quota_used["u2"] = InitialUsed("u2") + CostLesson

====
